---- MODULE Spec2Model ----
(***************************************************************************)
(* vtkIECTransformLogic: the IEC 61217 coordinate frame hierarchy, the     *)
(* store of elementary transforms, the update operations, the resolution   *)
(* of paths to the root and the composition of the transform between two   *)
(* frames.                                                                 *)
(*                                                                         *)
(* Matrices are 4x4 with exact rational entries: a matrix is a record      *)
(* [e |-> <<16 integers, row-major>>, d |-> positive integer] standing for *)
(* the matrix e/d, kept in lowest terms so that equal matrices are equal   *)
(* values.  Angles are whole multiples of 90 degrees, whose sines and      *)
(* cosines are exact.                                                      *)
(***************************************************************************)
EXTENDS Integers, Sequences, FiniteSets, TLC

(***************************************************************************)
(* enum CoordinateSystemIdentifier                                         *)
(***************************************************************************)
RAS == 0
FixedReference == 1
Gantry == 2
Collimator == 3
LeftImagingPanel == 4
RightImagingPanel == 5
PatientSupportRotation == 6
PatientSupport == 7
TableTopEccentricRotation == 8
TableTop == 9
FlatPanel == 10
WedgeFilter == 11
Patient == 12
DICOM == 13
PatientImageRegularGrid == 14
Imager == 15
Focus == 16
LastIECCoordinateFrame == 17

CoordinateSystemIdentifier == RAS..LastIECCoordinateFrame

(***************************************************************************)
(* Bounds of the model.                                                    *)
(***************************************************************************)
\* update calls in one behaviour
MaxUpdates == 2
\* passes of the do-while loop of GetPathToRoot that are followed
MaxPasses == 8

(***************************************************************************)
(* 4x4 matrices (vtkMatrix4x4, the matrix of a vtkTransform).              *)
(***************************************************************************)
Abs(n) == IF n < 0 THEN -n ELSE n

RECURSIVE Gcd(_, _)
Gcd(a, b) == IF b = 0 THEN a ELSE Gcd(b, a % b)

RECURSIVE GcdOfElements(_, _, _)
GcdOfElements(e, k, g) ==
    IF k > 16 \/ g = 1 THEN g ELSE GcdOfElements(e, k + 1, Gcd(g, Abs(e[k])))

\* the matrix e/d in lowest terms, d > 0
Normalize(e, d) ==
    IF d = 1 THEN [e |-> e, d |-> 1]
    ELSE LET g == GcdOfElements(e, 1, Abs(d))
             s == IF d < 0 THEN -g ELSE g
         IN  [e |-> [k \in 1..16 |-> e[k] \div s], d |-> d \div s]

IdentityMatrix ==
    [e |-> << 1, 0, 0, 0,
              0, 1, 0, 0,
              0, 0, 1, 0,
              0, 0, 0, 1 >>, d |-> 1]

\* vtkMatrix4x4::Multiply4x4: the product A * B
Multiply4x4(A, B) ==
    LET a == A.e
        b == B.e
    IN  Normalize(
          << a[1]*b[1] + a[2]*b[5] + a[3]*b[9] + a[4]*b[13],
             a[1]*b[2] + a[2]*b[6] + a[3]*b[10] + a[4]*b[14],
             a[1]*b[3] + a[2]*b[7] + a[3]*b[11] + a[4]*b[15],
             a[1]*b[4] + a[2]*b[8] + a[3]*b[12] + a[4]*b[16],
             a[5]*b[1] + a[6]*b[5] + a[7]*b[9] + a[8]*b[13],
             a[5]*b[2] + a[6]*b[6] + a[7]*b[10] + a[8]*b[14],
             a[5]*b[3] + a[6]*b[7] + a[7]*b[11] + a[8]*b[15],
             a[5]*b[4] + a[6]*b[8] + a[7]*b[12] + a[8]*b[16],
             a[9]*b[1] + a[10]*b[5] + a[11]*b[9] + a[12]*b[13],
             a[9]*b[2] + a[10]*b[6] + a[11]*b[10] + a[12]*b[14],
             a[9]*b[3] + a[10]*b[7] + a[11]*b[11] + a[12]*b[15],
             a[9]*b[4] + a[10]*b[8] + a[11]*b[12] + a[12]*b[16],
             a[13]*b[1] + a[14]*b[5] + a[15]*b[9] + a[16]*b[13],
             a[13]*b[2] + a[14]*b[6] + a[15]*b[10] + a[16]*b[14],
             a[13]*b[3] + a[14]*b[7] + a[15]*b[11] + a[16]*b[15],
             a[13]*b[4] + a[14]*b[8] + a[15]*b[12] + a[16]*b[16] >>,
          A.d * B.d)

\* vtkMatrix4x4::Invert in place: the adjoint divided by the determinant,
\* both computed from the 2x2 minors of the upper (s) and lower (c) row
\* pairs; a matrix whose determinant is zero is left as it is.  The
\* inverse of e/d is d * adjoint(e) / determinant(e).
Invert(M) ==
    LET a == M.e
        s0 == a[1] * a[6] - a[5] * a[2]
        s1 == a[1] * a[7] - a[5] * a[3]
        s2 == a[1] * a[8] - a[5] * a[4]
        s3 == a[2] * a[7] - a[6] * a[3]
        s4 == a[2] * a[8] - a[6] * a[4]
        s5 == a[3] * a[8] - a[7] * a[4]
        c5 == a[11] * a[16] - a[15] * a[12]
        c4 == a[10] * a[16] - a[14] * a[12]
        c3 == a[10] * a[15] - a[14] * a[11]
        c2 == a[9] * a[16] - a[13] * a[12]
        c1 == a[9] * a[15] - a[13] * a[11]
        c0 == a[9] * a[14] - a[13] * a[10]
        det == s0 * c5 - s1 * c4 + s2 * c3 + s3 * c2 - s4 * c1 + s5 * c0
        dd == M.d
    IN  IF det = 0 THEN M
        ELSE Normalize(
               << dd * (  a[6] * c5 - a[7] * c4 + a[8] * c3),
                  dd * (- a[2] * c5 + a[3] * c4 - a[4] * c3),
                  dd * (  a[14] * s5 - a[15] * s4 + a[16] * s3),
                  dd * (- a[10] * s5 + a[11] * s4 - a[12] * s3),
                  dd * (- a[5] * c5 + a[7] * c2 - a[8] * c1),
                  dd * (  a[1] * c5 - a[3] * c2 + a[4] * c1),
                  dd * (- a[13] * s5 + a[15] * s2 - a[16] * s1),
                  dd * (  a[9] * s5 - a[11] * s2 + a[12] * s1),
                  dd * (  a[5] * c4 - a[6] * c2 + a[8] * c0),
                  dd * (- a[1] * c4 + a[2] * c2 - a[4] * c0),
                  dd * (  a[13] * s4 - a[14] * s2 + a[16] * s0),
                  dd * (- a[9] * s4 + a[10] * s2 - a[12] * s0),
                  dd * (- a[5] * c3 + a[6] * c1 - a[7] * c0),
                  dd * (  a[1] * c3 - a[2] * c1 + a[3] * c0),
                  dd * (- a[13] * s3 + a[14] * s1 - a[15] * s0),
                  dd * (  a[9] * s3 - a[10] * s1 + a[11] * s0) >>,
               det)

\* exact cosine and sine of a whole multiple of 90 degrees
CosDeg(a) == CASE a % 360 = 0 -> 1 [] a % 360 = 90 -> 0
               [] a % 360 = 180 -> -1 [] a % 360 = 270 -> 0
SinDeg(a) == CASE a % 360 = 0 -> 0 [] a % 360 = 90 -> 1
               [] a % 360 = 180 -> 0 [] a % 360 = 270 -> -1

TranslationMatrix(x, y, z) ==
    [e |-> << 1, 0, 0, x,
              0, 1, 0, y,
              0, 0, 1, z,
              0, 0, 0, 1 >>, d |-> 1]
RotationXMatrix(a) ==
    [e |-> << 1, 0,         0,          0,
              0, CosDeg(a), -SinDeg(a), 0,
              0, SinDeg(a), CosDeg(a),  0,
              0, 0,         0,          1 >>, d |-> 1]
RotationYMatrix(a) ==
    [e |-> << CosDeg(a),  0, SinDeg(a), 0,
              0,          1, 0,         0,
              -SinDeg(a), 0, CosDeg(a), 0,
              0,          0, 0,         1 >>, d |-> 1]
RotationZMatrix(a) ==
    [e |-> << CosDeg(a), -SinDeg(a), 0, 0,
              SinDeg(a), CosDeg(a),  0, 0,
              0,         0,          1, 0,
              0,         0,          0, 1 >>, d |-> 1]

\* vtkTransform in its default PreMultiply mode: M = M * A
Translate(M, x, y, z) == Multiply4x4(M, TranslationMatrix(x, y, z))
RotateX(M, a) == Multiply4x4(M, RotationXMatrix(a))
RotateY(M, a) == Multiply4x4(M, RotationYMatrix(a))
RotateZ(M, a) == Multiply4x4(M, RotationZMatrix(a))
Concatenate(M, A) == Multiply4x4(M, A)

\* vtkGeneralTransform after PostMultiply(): M = A * M
PostConcatenate(M, A) == Multiply4x4(A, M)


(***************************************************************************)
(* The state of the logic object and of its caller.                        *)
(***************************************************************************)
VARIABLES
    CoordinateSystemsMap,       \* identifier -> name (std::map, operator[] inserts)
    IECTransforms,              \* the declared (from, to) pairs
    CoordinateSystemsHierarchy, \* parent -> list of children (std::map)
    ElementaryTransforms,       \* vector of pointers to the member transforms
    Transform,                  \* member transform -> [ObjectName, Matrix]
    outputTransform,            \* the caller's vtkGeneralTransform
    call,                       \* the GetTransformBetween call made, if any
    lastCall,                   \* member -> arguments of its latest update call
    nUpdates,                   \* update calls made so far
    indexing,                   \* the caller of the static index functions
    updating                    \* the update call in progress, if any

vars == << CoordinateSystemsMap, IECTransforms, CoordinateSystemsHierarchy,
           ElementaryTransforms, Transform, outputTransform, call, lastCall,
           nUpdates, indexing, updating >>

\* the vtkNew<vtkTransform> members holding the elementary transforms
Members ==
    { "FixedReferenceToRasTransform", "GantryToFixedReferenceTransform",
      "CollimatorToGantryTransform", "WedgeFilterToCollimatorTransform",
      "LeftImagingPanelToGantryTransform", "RightImagingPanelToGantryTransform",
      "PatientSupportRotationToFixedReferenceTransform",
      "PatientSupportToPatientSupportRotationTransform",
      "TableTopEccentricRotationToPatientSupportRotationTransform",
      "TableTopToTableTopEccentricRotationTransform",
      "PatientToTableTopTransform", "DICOMToPatientTransform",
      "PatientImageRegularGridToDICOMTransform", "RasToPatientTransform",
      "FlatPanelToGantryTransform" }

\* the name map as the constructor fills it
InitialCoordinateSystemsMap ==
    (RAS :> "Ras") @@ (FixedReference :> "FixedReference") @@ (Gantry :> "Gantry")
    @@ (Collimator :> "Collimator") @@ (LeftImagingPanel :> "LeftImagingPanel")
    @@ (RightImagingPanel :> "RightImagingPanel")
    @@ (PatientSupportRotation :> "PatientSupportRotation")
    @@ (PatientSupport :> "PatientSupport")
    @@ (TableTopEccentricRotation :> "TableTopEccentricRotation")
    @@ (TableTop :> "TableTop") @@ (FlatPanel :> "FlatPanel")
    @@ (WedgeFilter :> "WedgeFilter") @@ (Patient :> "Patient") @@ (DICOM :> "DICOM")
    @@ (PatientImageRegularGrid :> "PatientImageRegularGrid")

\* the declared transforms in push_back order
InitialIECTransforms ==
    << <<FixedReference, RAS>>, <<Gantry, FixedReference>>, <<Collimator, Gantry>>,
       <<WedgeFilter, Collimator>>, <<LeftImagingPanel, Gantry>>,
       <<RightImagingPanel, Gantry>>, <<PatientSupportRotation, FixedReference>>,
       <<PatientSupport, PatientSupportRotation>>,
       <<TableTopEccentricRotation, PatientSupportRotation>>,
       <<TableTop, TableTopEccentricRotation>>, <<Patient, TableTop>>,
       <<DICOM, Patient>>, <<PatientImageRegularGrid, DICOM>>, <<RAS, Patient>>,
       <<FlatPanel, Gantry>> >>

\* the member each SetObjectName call names, with the pair it is named after
NamedMembers ==
    << <<"FixedReferenceToRasTransform", FixedReference, RAS>>,
       <<"GantryToFixedReferenceTransform", Gantry, FixedReference>>,
       <<"CollimatorToGantryTransform", Collimator, Gantry>>,
       <<"WedgeFilterToCollimatorTransform", WedgeFilter, Collimator>>,
       <<"LeftImagingPanelToGantryTransform", LeftImagingPanel, Gantry>>,
       <<"RightImagingPanelToGantryTransform", RightImagingPanel, Gantry>>,
       <<"PatientSupportRotationToFixedReferenceTransform",
         PatientSupportRotation, FixedReference>>,
       <<"PatientSupportToPatientSupportRotationTransform",
         PatientSupport, PatientSupportRotation>>,
       <<"TableTopEccentricRotationToPatientSupportRotationTransform",
         TableTopEccentricRotation, PatientSupportRotation>>,
       <<"TableTopToTableTopEccentricRotationTransform",
         TableTop, TableTopEccentricRotation>>,
       <<"PatientToTableTopTransform", Patient, TableTop>>,
       <<"DICOMToPatientTransform", DICOM, Patient>>,
       <<"PatientImageRegularGridToDICOMTransform", PatientImageRegularGrid, DICOM>>,
       <<"RasToPatientTransform", RAS, Patient>>,
       <<"FlatPanelToGantryTransform", FlatPanel, Gantry>> >>

\* the vector of elementary transforms in push_back order
InitialElementaryTransforms ==
    << "FixedReferenceToRasTransform", "GantryToFixedReferenceTransform",
       "CollimatorToGantryTransform", "WedgeFilterToCollimatorTransform",
       "LeftImagingPanelToGantryTransform", "RightImagingPanelToGantryTransform",
       "PatientSupportRotationToFixedReferenceTransform",
       "PatientSupportToPatientSupportRotationTransform",
       "TableTopEccentricRotationToPatientSupportRotationTransform",
       "TableTopToTableTopEccentricRotationTransform",
       "PatientToTableTopTransform", "DICOMToPatientTransform",
       "PatientImageRegularGridToDICOMTransform", "RasToPatientTransform",
       "FlatPanelToGantryTransform" >>

\* a hierarchy that also lists RAS under FixedReference, after the declared
\* FixedReference -> RAS transform: the fault that a tree excludes
InitialCoordinateSystemsHierarchyRasUnderRoot ==
    << <<FixedReference, <<Gantry, PatientSupportRotation, RAS>> >>,
       <<Gantry, <<Collimator, LeftImagingPanel, RightImagingPanel, FlatPanel>> >>,
       <<Collimator, <<WedgeFilter>> >>,
       <<PatientSupportRotation, <<PatientSupport, TableTopEccentricRotation>> >>,
       <<TableTopEccentricRotation, <<TableTop>> >>,
       <<TableTop, <<Patient>> >>,
       <<Patient, <<DICOM, RAS>> >>,
       <<DICOM, <<PatientImageRegularGrid>> >> >>

\* key - parent, value - children; the entries of the std::map in the
\* order its iteration visits them, which is increasing key order
InitialCoordinateSystemsHierarchy ==
    << <<FixedReference, <<Gantry, PatientSupportRotation>> >>,
       <<Gantry, <<Collimator, LeftImagingPanel, RightImagingPanel, FlatPanel>> >>,
       <<Collimator, <<WedgeFilter>> >>,
       <<PatientSupportRotation, <<PatientSupport, TableTopEccentricRotation>> >>,
       <<TableTopEccentricRotation, <<TableTop>> >>,
       <<TableTop, <<Patient>> >>,
       <<Patient, <<DICOM, RAS>> >>,
       <<DICOM, <<PatientImageRegularGrid>> >> >>

\* dicomToPatientTransformationMatrix
DicomToPatientTransformationMatrix ==
    [e |-> << 1,  0, 0, 0,
              0,  0, 1, 0,
              0, -1, 0, 0,
              0,  0, 0, 1 >>, d |-> 1]

\* std::map::operator[] on the name map: the mapped name, the empty string
\* for a key that is not there
NameOf(map, frame) == IF frame \in DOMAIN map THEN map[frame] ELSE ""

\* the name map after operator[] was applied to frame
Touched(map, frame) == IF frame \in DOMAIN map THEN map ELSE map @@ (frame :> "")

\* a transform name that ends with the name of the to-frame: the fault that
\* the form of the name excludes
TransformNameBetweenNoSuffix(map, fromFrame, toFrame) ==
    NameOf(map, fromFrame) \o "To" \o NameOf(map, toFrame)

\* vtkIECTransformLogic::GetTransformNameBetween, the string it returns
TransformNameBetween(map, fromFrame, toFrame) ==
    NameOf(map, fromFrame) \o "To" \o NameOf(map, toFrame) \o "Transform"


(***************************************************************************)
(* The logic object as the operations below read it.                       *)
(***************************************************************************)
This ==
    [ CoordinateSystemsMap |-> CoordinateSystemsMap,
      CoordinateSystemsHierarchy |-> CoordinateSystemsHierarchy,
      ElementaryTransforms |-> ElementaryTransforms,
      Transform |-> Transform ]

NullPtr == "nullptr"

\* std::find(children.begin(), children.end(), frame) != children.end()
Find(children, frame) == \E i \in 1..Len(children) : children[i] = frame

(***************************************************************************)
(* vtkIECTransformLogic::GetPathToRoot                                     *)
(***************************************************************************)
\* a for loop that does not append FixedReference after the child of the
\* root: the fault that a path ending at the root excludes
RECURSIVE ForEachPairWithoutRoot(_, _, _, _, _)
ForEachPairWithoutRoot(hierarchy, i, frame, path, found) ==
    IF i > Len(hierarchy)
    THEN [frame |-> frame, path |-> path, found |-> found]
    ELSE IF Find(hierarchy[i][2], frame)
         THEN IF hierarchy[i][1] # FixedReference
              THEN [frame |-> hierarchy[i][1], path |-> Append(path, frame),
                    found |-> TRUE]
              ELSE ForEachPairWithoutRoot(hierarchy, i + 1, hierarchy[i][1],
                                          Append(path, frame), found)
         ELSE ForEachPairWithoutRoot(hierarchy, i + 1, frame, path, FALSE)

\* a for loop without the else branch that clears found: the fault that
\* the end of the do-while loop excludes
RECURSIVE ForEachPairFoundKept(_, _, _, _, _)
ForEachPairFoundKept(hierarchy, i, frame, path, found) ==
    IF i > Len(hierarchy)
    THEN [frame |-> frame, path |-> path, found |-> found]
    ELSE IF Find(hierarchy[i][2], frame)
         THEN IF hierarchy[i][1] # FixedReference
              THEN [frame |-> hierarchy[i][1], path |-> Append(path, frame),
                    found |-> TRUE]
              ELSE ForEachPairFoundKept(hierarchy, i + 1, hierarchy[i][1],
                                        Append(Append(path, frame), FixedReference),
                                        found)
         ELSE ForEachPairFoundKept(hierarchy, i + 1, frame, path, found)

\* The for loop over the hierarchy map from its i-th entry on.  It ends by
\* break (found = TRUE) or at the end of the map.
RECURSIVE ForEachPair(_, _, _, _, _)
ForEachPair(hierarchy, i, frame, path, found) ==
    IF i > Len(hierarchy)
    THEN [frame |-> frame, path |-> path, found |-> found]
    ELSE LET parent == hierarchy[i][1]
             children == hierarchy[i][2]
         IN  IF Find(children, frame)
             THEN IF parent # FixedReference
                  THEN [frame |-> parent, path |-> Append(path, frame),
                        found |-> TRUE]
                  ELSE ForEachPair(hierarchy, i + 1, parent,
                                   Append(Append(path, frame), FixedReference),
                                   found)
             ELSE ForEachPair(hierarchy, i + 1, frame, path, FALSE)

\* The do-while loop; passes counts the passes made so far.  A loop that is
\* still running after MaxPasses passes is reported as diverged.
RECURSIVE DoWhileFound(_, _, _, _, _)
DoWhileFound(hierarchy, frame, path, found, passes) ==
    IF passes >= MaxPasses
    THEN [path |-> path, passes |-> passes, diverged |-> TRUE]
    ELSE LET r == ForEachPair(hierarchy, 1, frame, path, found)
         IN  IF r.found
             THEN DoWhileFound(hierarchy, r.frame, r.path, r.found, passes + 1)
             ELSE [path |-> r.path, passes |-> passes + 1, diverged |-> FALSE]

\* GetPathToRoot ending in return true: the fault that the failure of
\* unconnected frames excludes
GetPathToRootReturnTrue(this, frame, path) ==
    IF frame = FixedReference
    THEN [ret |-> TRUE, path |-> Append(path, FixedReference),
          passes |-> 0, diverged |-> FALSE]
    ELSE LET r == DoWhileFound(this.CoordinateSystemsHierarchy, frame, path, FALSE, 0)
         IN  [ret |-> TRUE, path |-> r.path,
              passes |-> r.passes, diverged |-> r.diverged]

\* [ret, path, passes, diverged]: the value returned and the path argument
\* after the call
GetPathToRoot(this, frame, path) ==
    IF frame = FixedReference
    THEN [ret |-> TRUE, path |-> Append(path, FixedReference),
          passes |-> 0, diverged |-> FALSE]
    ELSE LET r == DoWhileFound(this.CoordinateSystemsHierarchy, frame, path, FALSE, 0)
         IN  [ret |-> Len(r.path) > 0, path |-> r.path,
              passes |-> r.passes, diverged |-> r.diverged]

\* std::reverse
Reverse(s) == [i \in 1..Len(s) |-> s[Len(s) + 1 - i]]

(***************************************************************************)
(* vtkIECTransformLogic::GetPathFromRoot                                   *)
(***************************************************************************)
\* GetPathFromRoot without the std::reverse: the fault that a path from
\* the root excludes
GetPathFromRootNotReversed(this, frame, path) ==
    LET r == GetPathToRoot(this, frame, path)
    IN  [ret |-> r.ret, path |-> r.path,
         passes |-> r.passes, diverged |-> r.diverged]

GetPathFromRoot(this, frame, path) ==
    LET r == GetPathToRoot(this, frame, path)
    IN  IF r.ret
        THEN [ret |-> TRUE, path |-> Reverse(r.path),
              passes |-> r.passes, diverged |-> r.diverged]
        ELSE [ret |-> FALSE, path |-> r.path,
              passes |-> r.passes, diverged |-> r.diverged]

(***************************************************************************)
(* vtkIECTransformLogic::GetTransformNameBetween                           *)
(***************************************************************************)
GetTransformNameBetween(this, fromFrame, toFrame) ==
    TransformNameBetween(this.CoordinateSystemsMap, fromFrame, toFrame)

(***************************************************************************)
(* vtkIECTransformLogic::GetElementaryTransformBetween: the first member   *)
(* of the vector whose object name is the requested name, or nullptr.      *)
(***************************************************************************)
\* a search loop that returns the transform it visits first without
\* comparing the names: the fault that a composition along the tree edges
\* only excludes
FirstNamedFront(this, i, requestedTransformName) ==
    IF i > Len(this.ElementaryTransforms) THEN NullPtr
    ELSE this.ElementaryTransforms[i]

RECURSIVE FirstNamed(_, _, _)
FirstNamed(this, i, requestedTransformName) ==
    IF i > Len(this.ElementaryTransforms) THEN NullPtr
    ELSE IF this.Transform[this.ElementaryTransforms[i]].ObjectName
              = requestedTransformName
    THEN this.ElementaryTransforms[i]
    ELSE FirstNamed(this, i + 1, requestedTransformName)

\* a lookup that falls back to the transform of the opposite direction: the
\* fault that not-found for the reverse of a declared pair excludes
GetElementaryTransformBetweenEitherWay(this, fromFrame, toFrame) ==
    LET there == FirstNamed(this, 1, GetTransformNameBetween(this, fromFrame, toFrame))
    IN  IF there # NullPtr THEN there
        ELSE FirstNamed(this, 1, GetTransformNameBetween(this, toFrame, fromFrame))

GetElementaryTransformBetween(this, fromFrame, toFrame) ==
    FirstNamed(this, 1, GetTransformNameBetween(this, fromFrame, toFrame))

(***************************************************************************)
(* vtkIECTransformLogic::GetTransformBetween                               *)
(***************************************************************************)
\* the first loop: from fromFrame up to the root, matrices as stored
RECURSIVE FromFrameLoop(_, _, _, _)
FromFrameLoop(this, fromFrameVector, i, matrix) ==
    IF i >= Len(fromFrameVector) THEN [ret |-> TRUE, matrix |-> matrix]
    ELSE LET child == fromFrameVector[i]
             parent == fromFrameVector[i + 1]
             fromTransform == GetElementaryTransformBetween(this, child, parent)
         IN  IF child = parent
             THEN FromFrameLoop(this, fromFrameVector, i + 1, matrix)
             ELSE IF fromTransform # NullPtr
             THEN FromFrameLoop(this, fromFrameVector, i + 1,
                      PostConcatenate(matrix, this.Transform[fromTransform].Matrix))
             ELSE [ret |-> FALSE, matrix |-> matrix]

\* a second loop that concatenates the stored matrix in either mode: the
\* fault that properties of the inverted leg exclude
ToFrameMatrixAsStored(mat, transformForBeam) == mat

\* a second loop that inverts in either mode: the fault that properties of
\* the beam mode exclude
ToFrameMatrixInverted(mat, transformForBeam) == Invert(mat)

\* the copy of the stored matrix the second loop concatenates
ToFrameMatrix(mat, transformForBeam) ==
    IF ~transformForBeam THEN Invert(mat) ELSE mat

\* the second loop: from the root down to toFrame
RECURSIVE ToFrameLoop(_, _, _, _, _)
ToFrameLoop(this, toFrameVector, i, matrix, transformForBeam) ==
    IF i >= Len(toFrameVector) THEN [ret |-> TRUE, matrix |-> matrix]
    ELSE LET parent == toFrameVector[i]
             child == toFrameVector[i + 1]
             toTransform == GetElementaryTransformBetween(this, child, parent)
         IN  IF child = parent
             THEN ToFrameLoop(this, toFrameVector, i + 1, matrix, transformForBeam)
             ELSE IF toTransform # NullPtr
             THEN ToFrameLoop(this, toFrameVector, i + 1,
                      PostConcatenate(matrix,
                          ToFrameMatrix(this.Transform[toTransform].Matrix,
                                        transformForBeam)),
                      transformForBeam)
             ELSE [ret |-> FALSE, matrix |-> matrix]

\* the body entered when both paths were resolved: Identity(),
\* PostMultiply(), then the two loops
ComposeAlongPaths(this, fromFramePath, toFramePath, output, transformForBeam) ==
    LET up == FromFrameLoop(this, fromFramePath, 1, IdentityMatrix)
        down == ToFrameLoop(this, toFramePath, 1, up.matrix, transformForBeam)
    IN  IF ~up.ret
        THEN [ret |-> FALSE,
              output |-> [Matrix |-> up.matrix, PostMultiply |-> TRUE]]
        ELSE [ret |-> down.ret,
              output |-> [Matrix |-> down.matrix, PostMultiply |-> TRUE]]

\* GetTransformBetween with Identity() and PostMultiply() moved ahead of the
\* path resolution: the fault that an output untouched on failure excludes
GetTransformBetweenResetFirst(this, fromFrame, toFrame, output, hasOutput, transformForBeam) ==
    LET fromFramePath == GetPathToRoot(this, fromFrame, << >>)
        toFramePath == GetPathFromRoot(this, toFrame, << >>)
        reset == [Matrix |-> IdentityMatrix, PostMultiply |-> TRUE]
    IN  IF ~hasOutput
        THEN [ret |-> FALSE, output |-> output,
              CoordinateSystemsMap |-> this.CoordinateSystemsMap]
        ELSE IF fromFramePath.ret /\ toFramePath.ret
        THEN LET r == ComposeAlongPaths(this, fromFramePath.path, toFramePath.path,
                                        reset, transformForBeam)
             IN  [ret |-> r.ret, output |-> r.output,
                  CoordinateSystemsMap |-> this.CoordinateSystemsMap]
        ELSE [ret |-> FALSE, output |-> reset,
              CoordinateSystemsMap |->
                  Touched(Touched(this.CoordinateSystemsMap, fromFrame), toFrame)]

\* [ret, output, CoordinateSystemsMap]: the value returned, the caller's
\* transform and the name map after the call.  hasOutput is FALSE for a
\* null outputTransform.  The message of the final vtkErrorMacro is built
\* with GetTransformNameBetween, which reads the name map with operator[].
GetTransformBetween(this, fromFrame, toFrame, output, hasOutput, transformForBeam) ==
    LET fromFramePath == GetPathToRoot(this, fromFrame, << >>)
        toFramePath == GetPathFromRoot(this, toFrame, << >>)
    IN  IF ~hasOutput
        THEN [ret |-> FALSE, output |-> output,
              CoordinateSystemsMap |-> this.CoordinateSystemsMap]
        ELSE IF fromFramePath.ret /\ toFramePath.ret
        THEN LET r == ComposeAlongPaths(this, fromFramePath.path, toFramePath.path,
                                        output, transformForBeam)
             IN  [ret |-> r.ret, output |-> r.output,
                  CoordinateSystemsMap |-> this.CoordinateSystemsMap]
        ELSE [ret |-> FALSE, output |-> output,
              CoordinateSystemsMap |->
                  Touched(Touched(this.CoordinateSystemsMap, fromFrame), toFrame)]


(***************************************************************************)
(* The state after construction.  The caller's output transform holds      *)
(* whatever the caller left in it; here an earlier, unrelated result.      *)
(***************************************************************************)
CallerOutput == [Matrix |-> TranslationMatrix(7, 8, 9), PostMultiply |-> FALSE]

\* a constructor that leaves every member at the identity: the fault that
\* the constant DICOM -> Patient rotation excludes
InitialMatrixIdentity(member) == IdentityMatrix

\* the matrix a member has when the constructor returns
InitialMatrix(member) ==
    IF member = "DICOMToPatientTransform"
    THEN Concatenate(IdentityMatrix, DicomToPatientTransformationMatrix)
    ELSE IdentityMatrix

\* members named parent first, "<parent>To<child>Transform": the fault
\* that a registered transform for every tree edge excludes
InitialObjectNameParentFirst(member) ==
    LET named == CHOOSE i \in 1..Len(NamedMembers) : NamedMembers[i][1] = member
    IN  TransformNameBetween(InitialCoordinateSystemsMap,
                             NamedMembers[named][3], NamedMembers[named][2])

\* the object name a member is given by SetObjectName
InitialObjectName(member) ==
    LET named == CHOOSE i \in 1..Len(NamedMembers) : NamedMembers[i][1] = member
    IN  TransformNameBetween(InitialCoordinateSystemsMap,
                             NamedMembers[named][2], NamedMembers[named][3])

\* no GetTransformBetween call was made yet
NoCall == [op |-> "none"]

\* the member's update operation was never called
Never == << >>

\* the index functions are static and were not called
NotIndexing == [calls |-> << >>]

\* no update call is in progress
NotUpdating == [member |-> "none"]

\* the logic object when its constructor returns, and its caller
Constructor ==
    /\ CoordinateSystemsMap = InitialCoordinateSystemsMap
    /\ IECTransforms = InitialIECTransforms
    /\ CoordinateSystemsHierarchy = InitialCoordinateSystemsHierarchy
    /\ ElementaryTransforms = InitialElementaryTransforms
    /\ Transform = [member \in Members |->
                       [ObjectName |-> InitialObjectName(member),
                        Matrix |-> InitialMatrix(member)]]
    /\ outputTransform = CallerOutput
    /\ call = NoCall
    /\ lastCall = [member \in Members |-> Never]
    /\ nUpdates = 0
    /\ updating = NotUpdating

Init == Constructor /\ indexing = NotIndexing

(***************************************************************************)
(* The update operations.  Each is given the matrix of its member and      *)
(* yields the matrix it leaves there.                                      *)
(***************************************************************************)
\* an update operation without its Identity() call: the fault that the reset
\* of the edge excludes
IdentityOmitted(M) == M

\* vtkTransform::Identity
Identity(M) == IdentityMatrix

\* the gantry update with RotateY called ahead of RotateX: the fault that the
\* order pitch, then roll excludes
GantryToFixedReferenceRollFirst(M, gantryRotationAngleDeg, gantryPitchAngleDeg) ==
    RotateX(RotateY(Identity(M), gantryRotationAngleDeg), gantryPitchAngleDeg)

GantryToFixedReference(M, gantryRotationAngleDeg, gantryPitchAngleDeg) ==
    RotateY(RotateX(Identity(M), gantryPitchAngleDeg), gantryRotationAngleDeg)

CollimatorToGantry(M, collimatorRotationAngleDeg, bz) ==
    RotateZ(Translate(Identity(M), 0, 0, bz), collimatorRotationAngleDeg)

WedgeFilterToCollimator(M, wedgefilterRotationAngleDeg, wz) ==
    RotateZ(Translate(Identity(M), 0, 0, wz), wedgefilterRotationAngleDeg)

PatientSupportRotationToFixedReference(M, patientSupportRotationAngleDeg) ==
    RotateZ(Identity(M), patientSupportRotationAngleDeg)

TableTopEccentricRotationToPatientSupportRotation(M, tableTopEccentricRotationAngleDeg, ey) ==
    RotateZ(Translate(Identity(M), 0, ey, 0), tableTopEccentricRotationAngleDeg)

TableTopToTableTopEccentricRotation(M, tx, ty, tz, tableTopPitchAngleDeg, tableTopRollAngleDeg) ==
    RotateY(RotateX(Translate(Identity(M), tx, ty, tz), tableTopPitchAngleDeg),
            tableTopRollAngleDeg)

\* the patient update with its rotations called in the order Z, Y, X: the
\* fault that the order psi, phi, theta excludes
PatientToTableTopThetaFirst(M, px, py, pz, patientPsiAngleDeg, patientPhiAngleDeg, patientThetaAngleDeg) ==
    RotateX(RotateY(RotateZ(Translate(Identity(M), px, py, pz), patientThetaAngleDeg),
                    patientPhiAngleDeg),
            patientPsiAngleDeg)

PatientToTableTop(M, px, py, pz, patientPsiAngleDeg, patientPhiAngleDeg, patientThetaAngleDeg) ==
    RotateZ(RotateY(RotateX(Translate(Identity(M), px, py, pz), patientPsiAngleDeg),
                    patientPhiAngleDeg),
            patientThetaAngleDeg)

\* the grid update with the two pixel spacings taken for each other: the
\* fault that the scaling of the columns excludes
PatientImageRegularGridToDICOMSpacingsSwapped(M, p) ==
    LET Zx == p[8] * p[12] - p[9] * p[11]
        Zy == p[9] * p[10] - p[7] * p[12]
        Zz == p[7] * p[11] - p[8] * p[10]
        m == [e |-> << p[7] * p[2], p[10] * p[1], Zx * p[3], p[4],
                       p[8] * p[2], p[11] * p[1], Zy * p[3], p[5],
                       p[9] * p[2], p[12] * p[1], Zz * p[3], p[6],
                       0, 0, 0, 1 >>, d |-> 1]
    IN  Concatenate(Identity(M), m)

\* p = <<columnPixelSpacing, rowPixelSpacing, sliceDistance, sx, sy, sz,
\*       directionCosineXx, Xy, Xz, directionCosineYx, Yy, Yz>>
PatientImageRegularGridToDICOM(M, p) ==
    LET columnPixelSpacing == p[1]
        rowPixelSpacing == p[2]
        sliceDistance == p[3]
        sx == p[4]
        sy == p[5]
        sz == p[6]
        directionCosineXx == p[7]
        directionCosineXy == p[8]
        directionCosineXz == p[9]
        directionCosineYx == p[10]
        directionCosineYy == p[11]
        directionCosineYz == p[12]
        directionCosineZx == directionCosineXy * directionCosineYz
                               - directionCosineXz * directionCosineYy
        directionCosineZy == directionCosineXz * directionCosineYx
                               - directionCosineXx * directionCosineYz
        directionCosineZz == directionCosineXx * directionCosineYy
                               - directionCosineXy * directionCosineYx
        m == [e |-> << directionCosineXx * columnPixelSpacing,
                       directionCosineYx * rowPixelSpacing,
                       directionCosineZx * sliceDistance, sx,
                       directionCosineXy * columnPixelSpacing,
                       directionCosineYy * rowPixelSpacing,
                       directionCosineZy * sliceDistance, sy,
                       directionCosineXz * columnPixelSpacing,
                       directionCosineYz * rowPixelSpacing,
                       directionCosineZz * sliceDistance, sz,
                       0, 0, 0, 1 >>, d |-> 1]
    IN  Concatenate(Identity(M), m)

(***************************************************************************)
(* The calls of a behaviour: update calls, MaxUpdates of them at most,     *)
(* followed by one call of GetTransformBetween.  The arguments of the      *)
(* update calls are drawn from the sets below.                             *)
(***************************************************************************)
\* <<gantryRotationAngleDeg, gantryPitchAngleDeg>>
GantryInputs == { <<90, 0>>, <<90, 90>> }
\* <<collimatorRotationAngleDeg, bz>>
CollimatorInputs == { <<90, 0>>, <<90, 1>> }
\* <<wedgefilterRotationAngleDeg, wz>>
WedgeFilterInputs == { <<270, 1>>, <<90, 0>> }
\* <<patientSupportRotationAngleDeg>>
PatientSupportRotationInputs == { <<90>>, <<180>> }
\* <<tableTopEccentricRotationAngleDeg, ey>>
TableTopEccentricRotationInputs == { <<90, 1>> }
\* <<tx, ty, tz, tableTopPitchAngleDeg, tableTopRollAngleDeg>>
TableTopInputs == { <<1, 2, 3, 90, 180>> }
\* <<px, py, pz, patientPsiAngleDeg, patientPhiAngleDeg, patientThetaAngleDeg>>
PatientInputs == { <<3, 1, 2, 90, 180, 270>> }
\* <<columnPixelSpacing, rowPixelSpacing, sliceDistance, sx, sy, sz,
\*   directionCosineXx, Xy, Xz, directionCosineYx, Yy, Yz>>:
\* spacings 2, 3, 4 with the default cosines; rows along Y and columns
\* along -X; a slice distance of zero
PatientImageRegularGridInputs ==
    { <<2, 3, 4, 1, 2, 3, 1, 0, 0, 0, 1, 0>>,
      <<1, 2, 1, 0, 0, 5, 0, 1, 0, -1, 0, 0>>,
      <<2, 3, 0, 0, 0, 0, 1, 0, 0, 0, 1, 0>> }

\* an update call with arguments p leaves matrix in its member
SetMatrix(member, matrix, p) ==
    /\ call = NoCall
    /\ nUpdates < MaxUpdates
    /\ Transform' = [Transform EXCEPT ![member].Matrix = matrix]
    /\ lastCall' = [lastCall EXCEPT ![member] = p]
    /\ nUpdates' = nUpdates + 1
    /\ UNCHANGED << CoordinateSystemsMap, IECTransforms, CoordinateSystemsHierarchy,
                    ElementaryTransforms, outputTransform, call, indexing, updating >>

UpdateGantryToFixedReferenceTransform(p) ==
    SetMatrix("GantryToFixedReferenceTransform",
              GantryToFixedReference(
                  Transform["GantryToFixedReferenceTransform"].Matrix, p[1], p[2]),
              p)

UpdateCollimatorToGantryTransform(p) ==
    SetMatrix("CollimatorToGantryTransform",
              CollimatorToGantry(
                  Transform["CollimatorToGantryTransform"].Matrix, p[1], p[2]),
              p)

\* the wedge filter update writing into the collimator member: the fault
\* that update locality excludes
UpdateWedgeFilterInCollimatorTransform(p) ==
    /\ call = NoCall
    /\ nUpdates < MaxUpdates
    /\ Transform' = [Transform EXCEPT !["CollimatorToGantryTransform"].Matrix =
                         WedgeFilterToCollimator(@, p[1], p[2])]
    /\ lastCall' = [lastCall EXCEPT !["WedgeFilterToCollimatorTransform"] = p]
    /\ nUpdates' = nUpdates + 1
    /\ UNCHANGED << CoordinateSystemsMap, IECTransforms, CoordinateSystemsHierarchy,
                    ElementaryTransforms, outputTransform, call, indexing, updating >>

UpdateWedgeFilterToCollimatorTransform(p) ==
    SetMatrix("WedgeFilterToCollimatorTransform",
              WedgeFilterToCollimator(
                  Transform["WedgeFilterToCollimatorTransform"].Matrix, p[1], p[2]),
              p)

UpdatePatientSupportRotationToFixedReferenceTransform(p) ==
    SetMatrix("PatientSupportRotationToFixedReferenceTransform",
              PatientSupportRotationToFixedReference(
                  Transform["PatientSupportRotationToFixedReferenceTransform"].Matrix,
                  p[1]),
              p)

UpdateTableTopEccentricRotationToPatientSupportRotationTransform(p) ==
    SetMatrix("TableTopEccentricRotationToPatientSupportRotationTransform",
              TableTopEccentricRotationToPatientSupportRotation(
                  Transform["TableTopEccentricRotationToPatientSupportRotationTransform"].Matrix,
                  p[1], p[2]),
              p)

UpdateTableTopToTableTopEccentricRotationTransform(p) ==
    SetMatrix("TableTopToTableTopEccentricRotationTransform",
              TableTopToTableTopEccentricRotation(
                  Transform["TableTopToTableTopEccentricRotationTransform"].Matrix,
                  p[1], p[2], p[3], p[4], p[5]),
              p)

\* the patient update writing into the RAS -> Patient member: the fault that
\* the frame of the update operations excludes
UpdatePatientToTableTopInRasToPatientTransform(p) ==
    /\ call = NoCall
    /\ nUpdates < MaxUpdates
    /\ Transform' = [Transform EXCEPT !["RasToPatientTransform"].Matrix =
                         PatientToTableTop(@, p[1], p[2], p[3], p[4], p[5], p[6])]
    /\ lastCall' = [lastCall EXCEPT !["PatientToTableTopTransform"] = p]
    /\ nUpdates' = nUpdates + 1
    /\ UNCHANGED << CoordinateSystemsMap, IECTransforms, CoordinateSystemsHierarchy,
                    ElementaryTransforms, outputTransform, call, indexing, updating >>

UpdatePatientToTableTopTransform(p) ==
    SetMatrix("PatientToTableTopTransform",
              PatientToTableTop(
                  Transform["PatientToTableTopTransform"].Matrix,
                  p[1], p[2], p[3], p[4], p[5], p[6]),
              p)

UpdatePatientImageRegularGridToDICOMTransform(p) ==
    SetMatrix("PatientImageRegularGridToDICOMTransform",
              PatientImageRegularGridToDICOM(
                  Transform["PatientImageRegularGridToDICOMTransform"].Matrix, p),
              p)

Update ==
    \/ \E p \in GantryInputs : UpdateGantryToFixedReferenceTransform(p)
    \/ \E p \in CollimatorInputs : UpdateCollimatorToGantryTransform(p)
    \/ \E p \in WedgeFilterInputs : UpdateWedgeFilterToCollimatorTransform(p)
    \/ \E p \in PatientSupportRotationInputs :
           UpdatePatientSupportRotationToFixedReferenceTransform(p)
    \/ \E p \in TableTopEccentricRotationInputs :
           UpdateTableTopEccentricRotationToPatientSupportRotationTransform(p)
    \/ \E p \in TableTopInputs : UpdateTableTopToTableTopEccentricRotationTransform(p)
    \/ \E p \in PatientInputs : UpdatePatientToTableTopTransform(p)
    \/ \E p \in PatientImageRegularGridInputs :
           UpdatePatientImageRegularGridToDICOMTransform(p)

\* a call that inverts the stored matrices of the toFrame path themselves
\* instead of copies of them: the fault that a read-only query excludes
CallGetTransformBetweenInvertingInPlace(fromFrame, toFrame, hasOutput, transformForBeam) ==
    /\ call = NoCall
    /\ \E r \in { GetTransformBetween(This, fromFrame, toFrame, outputTransform,
                                      hasOutput, transformForBeam) } :
           /\ outputTransform' = r.output
           /\ CoordinateSystemsMap' = r.CoordinateSystemsMap
           /\ call' = [op |-> "GetTransformBetween", fromFrame |-> fromFrame,
                       toFrame |-> toFrame, hasOutput |-> hasOutput,
                       transformForBeam |-> transformForBeam, ret |-> r.ret]
           /\ \E path \in { GetPathToRoot(This, toFrame, << >>).path } :
                  Transform' =
                      [member \in DOMAIN Transform |->
                          IF /\ r.ret
                             /\ ~transformForBeam
                             /\ \E i \in 1..(Len(path) - 1),
                                   k \in 1..Len(NamedMembers) :
                                    NamedMembers[k]
                                        = << member, path[i], path[i + 1] >>
                          THEN [Transform[member] EXCEPT !.Matrix = Invert(@)]
                          ELSE Transform[member]]
    /\ UNCHANGED << IECTransforms, CoordinateSystemsHierarchy, ElementaryTransforms,
                    lastCall, nUpdates, indexing, updating >>

\* a call that takes the edge under update as it was before the update
\* began, as a call held back until no update is in progress would: the
\* fault that a read of the matrix the update has reached excludes
CallGetTransformBetweenBeforeUpdate(fromFrame, toFrame, hasOutput, transformForBeam) ==
    /\ call = NoCall
    /\ \E this \in { IF updating = NotUpdating THEN This
                      ELSE [This EXCEPT !.Transform[updating.member].Matrix =
                                            updating.before] } :
       \E r \in { GetTransformBetween(this, fromFrame, toFrame, outputTransform,
                                      hasOutput, transformForBeam) } :
           /\ outputTransform' = r.output
           /\ CoordinateSystemsMap' = r.CoordinateSystemsMap
           /\ call' = [op |-> "GetTransformBetween", fromFrame |-> fromFrame,
                       toFrame |-> toFrame, hasOutput |-> hasOutput,
                       transformForBeam |-> transformForBeam, ret |-> r.ret]
    /\ UNCHANGED << IECTransforms, CoordinateSystemsHierarchy, ElementaryTransforms,
                    Transform, lastCall, nUpdates, indexing, updating >>

\* a call of GetTransformBetween; hasOutput = FALSE passes a null
\* outputTransform
CallGetTransformBetween(fromFrame, toFrame, hasOutput, transformForBeam) ==
    /\ call = NoCall
    /\ \E r \in { GetTransformBetween(This, fromFrame, toFrame, outputTransform,
                                      hasOutput, transformForBeam) } :
           /\ outputTransform' = r.output
           /\ CoordinateSystemsMap' = r.CoordinateSystemsMap
           /\ call' = [op |-> "GetTransformBetween", fromFrame |-> fromFrame,
                       toFrame |-> toFrame, hasOutput |-> hasOutput,
                       transformForBeam |-> transformForBeam, ret |-> r.ret]
    /\ UNCHANGED << IECTransforms, CoordinateSystemsHierarchy, ElementaryTransforms,
                    Transform, lastCall, nUpdates, indexing, updating >>

Query ==
    /\ call = NoCall
    /\ \E fromFrame \in CoordinateSystemIdentifier,
          toFrame \in CoordinateSystemIdentifier,
          hasOutput \in BOOLEAN, transformForBeam \in BOOLEAN :
           CallGetTransformBetween(fromFrame, toFrame, hasOutput, transformForBeam)

Next == Update \/ Query

Spec == Init /\ [][Next]_vars

\* the store under the update calls alone
SpecStore == Init /\ [][Update]_vars

(***************************************************************************)
(* A caller that makes the same GetTransformBetween call twice, with no    *)
(* update between the two calls.                                           *)
(***************************************************************************)
\* the updates made at most before the two calls
MaxUpdatesBeforeRepeat == 1

UpdateBeforeRepeat == nUpdates < MaxUpdatesBeforeRepeat /\ Update

\* the second call, with the arguments of the first and the output
\* transform as the first left it
RepeatGetTransformBetween ==
    /\ call # NoCall
    /\ "again" \notin DOMAIN call
    /\ \E r \in { GetTransformBetween(This, call.fromFrame, call.toFrame,
                                      outputTransform, call.hasOutput,
                                      call.transformForBeam) } :
           /\ outputTransform' = r.output
           /\ CoordinateSystemsMap' = r.CoordinateSystemsMap
           /\ call' = [op |-> "GetTransformBetween", fromFrame |-> call.fromFrame,
                       toFrame |-> call.toFrame, hasOutput |-> call.hasOutput,
                       transformForBeam |-> call.transformForBeam,
                       ret |-> call.ret, again |-> r.ret]
    /\ UNCHANGED << IECTransforms, CoordinateSystemsHierarchy, ElementaryTransforms,
                    Transform, lastCall, nUpdates, indexing, updating >>

NextRepeat == UpdateBeforeRepeat \/ Query \/ RepeatGetTransformBetween

SpecRepeat == Init /\ [][NextRepeat]_vars



(***************************************************************************)
(* Update calls and a GetTransformBetween call on two threads, without a   *)
(* lock.  An update call is a sequence of vtkTransform calls on its        *)
(* member: Identity(), then the Translate, RotateX, RotateY, RotateZ and   *)
(* Concatenate calls of its body, each a step of its own; the query may    *)
(* run before the update, after any of its steps or after the update.      *)
(***************************************************************************)
\* the update calls made at most next to the query
MaxConcurrentUpdates == 1

\* the matrices the calls after Identity() concatenate, in call order
UpdateSteps(member, p) ==
    CASE member = "GantryToFixedReferenceTransform" ->
             << RotationXMatrix(p[2]), RotationYMatrix(p[1]) >>
      [] member = "CollimatorToGantryTransform" ->
             << TranslationMatrix(0, 0, p[2]), RotationZMatrix(p[1]) >>
      [] member = "WedgeFilterToCollimatorTransform" ->
             << TranslationMatrix(0, 0, p[2]), RotationZMatrix(p[1]) >>
      [] member = "PatientSupportRotationToFixedReferenceTransform" ->
             << RotationZMatrix(p[1]) >>
      [] member = "TableTopEccentricRotationToPatientSupportRotationTransform" ->
             << TranslationMatrix(0, p[2], 0), RotationZMatrix(p[1]) >>
      [] member = "TableTopToTableTopEccentricRotationTransform" ->
             << TranslationMatrix(p[1], p[2], p[3]), RotationXMatrix(p[4]),
                RotationYMatrix(p[5]) >>
      [] member = "PatientToTableTopTransform" ->
             << TranslationMatrix(p[1], p[2], p[3]), RotationXMatrix(p[4]),
                RotationYMatrix(p[5]), RotationZMatrix(p[6]) >>
      [] member = "PatientImageRegularGridToDICOMTransform" ->
             << PatientImageRegularGridToDICOM(IdentityMatrix, p) >>

\* the update call enters its body and calls Identity() on its member
BeginUpdate(member, p) ==
    /\ call = NoCall
    /\ updating = NotUpdating
    /\ nUpdates < MaxConcurrentUpdates
    /\ Transform' = [Transform EXCEPT ![member].Matrix = Identity(@)]
    /\ updating' = [member |-> member, p |-> p, done |-> 1,
                    before |-> Transform[member].Matrix]
    /\ UNCHANGED << CoordinateSystemsMap, IECTransforms, CoordinateSystemsHierarchy,
                    ElementaryTransforms, outputTransform, call, lastCall,
                    nUpdates, indexing >>

BeginAnyUpdate ==
    \/ \E p \in GantryInputs : BeginUpdate("GantryToFixedReferenceTransform", p)
    \/ \E p \in CollimatorInputs : BeginUpdate("CollimatorToGantryTransform", p)
    \/ \E p \in WedgeFilterInputs :
           BeginUpdate("WedgeFilterToCollimatorTransform", p)
    \/ \E p \in PatientSupportRotationInputs :
           BeginUpdate("PatientSupportRotationToFixedReferenceTransform", p)
    \/ \E p \in TableTopEccentricRotationInputs :
           BeginUpdate("TableTopEccentricRotationToPatientSupportRotationTransform", p)
    \/ \E p \in TableTopInputs :
           BeginUpdate("TableTopToTableTopEccentricRotationTransform", p)
    \/ \E p \in PatientInputs : BeginUpdate("PatientToTableTopTransform", p)
    \/ \E p \in PatientImageRegularGridInputs :
           BeginUpdate("PatientImageRegularGridToDICOMTransform", p)

\* the next vtkTransform call of the update in progress; after the last
\* one the update call returns
ContinueUpdate ==
    /\ call = NoCall
    /\ updating # NotUpdating
    /\ \E steps \in { UpdateSteps(updating.member, updating.p) } :
           /\ Transform' = [Transform EXCEPT ![updating.member].Matrix =
                                Concatenate(@, steps[updating.done])]
           /\ IF updating.done < Len(steps)
              THEN /\ updating' = [updating EXCEPT !.done = @ + 1]
                   /\ UNCHANGED << lastCall, nUpdates >>
              ELSE /\ updating' = NotUpdating
                   /\ lastCall' = [lastCall EXCEPT ![updating.member] = updating.p]
                   /\ nUpdates' = nUpdates + 1
    /\ UNCHANGED << CoordinateSystemsMap, IECTransforms, CoordinateSystemsHierarchy,
                    ElementaryTransforms, outputTransform, call, indexing >>

\* the query of the other thread: a call between two frames of the
\* hierarchy with an output transform, the calls that read the store
ConcurrentQuery ==
    \E fromFrame \in RAS..PatientImageRegularGrid,
       toFrame \in RAS..PatientImageRegularGrid, transformForBeam \in BOOLEAN :
        CallGetTransformBetween(fromFrame, toFrame, TRUE, transformForBeam)

NextConcurrent == BeginAnyUpdate \/ ContinueUpdate \/ ConcurrentQuery

SpecConcurrent == Init /\ [][NextConcurrent]_vars

(***************************************************************************)
(* The static index functions.  Their arguments are uint16_t values,       *)
(* 0..65535; a uint64_t is held as its eight bytes, lowest byte first, and *)
(* its arithmetic drops the carry out of the eighth byte.                  *)
(***************************************************************************)
RECURSIVE ToBytes(_, _)
\* the `width` lowest bytes of n, lowest byte first
ToBytes(n, width) ==
    IF width = 0 THEN << >>
    ELSE << n % 256 >> \o ToBytes(n \div 256, width - 1)

\* static_cast<uint64_t>(n)
ToUint64(n) == ToBytes(n, 8)

\* static_cast<uint16_t>(a)
ToUint16(a) == a[1] + 256 * a[2]

RECURSIVE TimesFrom(_, _, _, _)
\* the bytes i and above of a * n + carry * 256^(i-1)
TimesFrom(a, n, i, carry) ==
    IF i > Len(a) THEN << >>
    ELSE << (a[i] * n + carry) % 256 >>
             \o TimesFrom(a, n, i + 1, (a[i] * n + carry) \div 256)

\* a * n in the width of a, n a uint16_t promoted to that width
Times(a, n) == TimesFrom(a, n, 1, 0)

RECURSIVE PlusFrom(_, _, _, _)
PlusFrom(a, b, i, carry) ==
    IF i > Len(a) THEN << >>
    ELSE << (a[i] + b[i] + carry) % 256 >>
             \o PlusFrom(a, b, i + 1, (a[i] + b[i] + carry) \div 256)

\* a + b in the width of both
Plus(a, b) == PlusFrom(a, b, 1, 0)

RECURSIVE LessFrom(_, _, _)
LessFrom(a, b, i) ==
    IF i = 0 THEN FALSE
    ELSE IF a[i] # b[i] THEN a[i] < b[i]
    ELSE LessFrom(a, b, i - 1)

\* a < b for two values of one width
Less(a, b) == LessFrom(a, b, Len(a))

RECURSIVE DivideFrom(_, _, _, _, _)
\* long division of the bytes i and below, `rem` left from the bytes above
DivideFrom(a, n, i, rem, quot) ==
    IF i = 0 THEN [quot |-> quot, rem |-> rem]
    ELSE DivideFrom(a, n, i - 1, (rem * 256 + a[i]) % n,
                    << (rem * 256 + a[i]) \div n >> \o quot)

\* [quot, rem]: a / n and a % n for a uint16_t n above zero
Divide(a, n) == DivideFrom(a, n, Len(a), 0, << >>)

\* a bounds test that lets a coordinate equal to its extent through: the
\* fault that the error for every coordinate out of range excludes
VectorizedToLinearizedIndexOffByOne(vectorizedIndex, nElems) ==
    IF \/ vectorizedIndex[1] > nElems[1]
       \/ vectorizedIndex[2] > nElems[2]
       \/ vectorizedIndex[3] > nElems[3]
    THEN [thrown |-> TRUE]
    ELSE [thrown |-> FALSE,
          ret |-> Plus(Plus(Times(Times(ToUint64(vectorizedIndex[1]),
                                        nElems[2]), nElems[3]),
                            Times(ToUint64(vectorizedIndex[2]), nElems[3])),
                       ToUint64(vectorizedIndex[3]))]

\* the products and the sum taken in 32 bits and widened on return, as
\* without the casts to uint64_t: the fault that an exact result excludes
VectorizedToLinearizedIndexIn32Bits(vectorizedIndex, nElems) ==
    IF \/ vectorizedIndex[1] >= nElems[1]
       \/ vectorizedIndex[2] >= nElems[2]
       \/ vectorizedIndex[3] >= nElems[3]
    THEN [thrown |-> TRUE]
    ELSE [thrown |-> FALSE,
          ret |-> Plus(Plus(Times(Times(ToBytes(vectorizedIndex[1], 4),
                                        nElems[2]), nElems[3]),
                            Times(ToBytes(vectorizedIndex[2], 4), nElems[3])),
                       ToBytes(vectorizedIndex[3], 4)) \o <<0, 0, 0, 0>>]

\* [thrown, ret]: std::runtime_error was thrown, or the value returned
VectorizedToLinearizedIndex(vectorizedIndex, nElems) ==
    LET n0 == nElems[1]
        n1 == nElems[2]
        n2 == nElems[3]
        e0 == vectorizedIndex[1]
        e1 == vectorizedIndex[2]
        e2 == vectorizedIndex[3]
    IN  IF e0 >= n0 \/ e1 >= n1 \/ e2 >= n2
        THEN [thrown |-> TRUE]
        ELSE [thrown |-> FALSE,
              ret |-> Plus(Plus(Times(Times(ToUint64(e0), n1), n2),
                                Times(ToUint64(e1), n2)),
                           ToUint64(e2))]

\* the outcome of a division or a remainder by zero: undefined behaviour,
\* any value or none
DivisionByZero == [thrown |-> FALSE, undefined |-> TRUE]

\* the quotients and remainders of lines 273 to 275
Components(linearizedIndex, n1, n2) ==
    IF n2 = 0 \/ n1 = 0 THEN DivisionByZero
    ELSE [thrown |-> FALSE,
          ret |-> << ToUint16(Divide(Divide(linearizedIndex, n2).quot, n1).quot),
                     Divide(Divide(linearizedIndex, n2).quot, n1).rem % 65536,
                     Divide(linearizedIndex, n2).rem % 65536 >>]

\* an inverse that divides by n1 where n2 is due and by n2 where n1 is due:
\* the fault that the round trip excludes
LinearizedToVectorizedIndexByN1First(linearizedIndex, nElems) ==
    IF ~Less(linearizedIndex,
             Times(Times(ToUint64(nElems[1]), nElems[2]), nElems[3]))
    THEN [thrown |-> TRUE]
    ELSE Components(linearizedIndex, nElems[3], nElems[2])

\* a range test that lets the number of elements itself through: the fault
\* that the error on a grid without elements excludes
LinearizedToVectorizedIndexUpToTotal(linearizedIndex, nElems) ==
    IF Less(Times(Times(ToUint64(nElems[1]), nElems[2]), nElems[3]),
            linearizedIndex)
    THEN [thrown |-> TRUE]
    ELSE Components(linearizedIndex, nElems[2], nElems[3])

\* [thrown, ret], or DivisionByZero
LinearizedToVectorizedIndex(linearizedIndex, nElems) ==
    LET n0 == nElems[1]
        n1 == nElems[2]
        n2 == nElems[3]
        totalElems == Times(Times(ToUint64(n0), n1), n2)
    IN  IF ~Less(linearizedIndex, totalElems)
        THEN [thrown |-> TRUE]
        ELSE Components(linearizedIndex, n1, n2)

(***************************************************************************)
(* A caller of the index functions.  It holds the extents of a grid, a     *)
(* 3D index and a linear index, calls either function on what it holds,    *)
(* keeps the value returned and goes on after an error.                    *)
(***************************************************************************)
\* extents and coordinates of the small grids run from 0 to MaxExtent
MaxExtent == 2

\* the calls a caller makes at most
MaxIndexCalls == 2

\* every 3D index with the linear index 0, and every linear index with the
\* 3D index (0,0,0)
SmallIndexInputs ==
    LET Small == (0..MaxExtent) \X (0..MaxExtent) \X (0..MaxExtent)
    IN  [ nElems : Small, vectorizedIndex : Small,
          linearizedIndex : { ToUint64(0) } ]
          \cup
        [ nElems : Small, vectorizedIndex : { <<0, 0, 0>> },
          linearizedIndex :
              { ToUint64(n) : n \in 0..(MaxExtent * MaxExtent * MaxExtent) } ]

\* grids of 4 x 5 x 6, of 65535 x 2 x 3, of 1000 x 1000 x 1000 and of
\* 65535 x 65535 x 65535 elements with their last element, the one after
\* it and a coordinate at its extent
WideIndexInputs ==
    { [nElems |-> <<4, 5, 6>>, vectorizedIndex |-> <<1, 2, 3>>,
       linearizedIndex |-> ToUint64(45)],
      [nElems |-> <<4, 5, 6>>, vectorizedIndex |-> <<3, 4, 6>>,
       linearizedIndex |-> ToUint64(120)],
      [nElems |-> <<65535, 2, 3>>, vectorizedIndex |-> <<65534, 1, 2>>,
       linearizedIndex |-> ToUint64(393209)],
      [nElems |-> <<65535, 2, 3>>, vectorizedIndex |-> <<65535, 0, 0>>,
       linearizedIndex |-> ToUint64(393210)],
      [nElems |-> <<1000, 1000, 1000>>, vectorizedIndex |-> <<999, 999, 999>>,
       linearizedIndex |-> ToUint64(999999999)],
      [nElems |-> <<1000, 1000, 1000>>, vectorizedIndex |-> <<999, 1000, 0>>,
       linearizedIndex |-> ToUint64(1000000000)],
      [nElems |-> <<65535, 65535, 65535>>,
       vectorizedIndex |-> <<65534, 65534, 65534>>,
       linearizedIndex |-> <<254, 255, 2, 0, 253, 255, 0, 0>>],
      [nElems |-> <<65535, 65535, 65535>>,
       vectorizedIndex |-> <<65534, 65535, 65534>>,
       linearizedIndex |-> <<255, 255, 2, 0, 253, 255, 0, 0>>] }

InitIndex ==
    /\ Constructor
    /\ \E input \in SmallIndexInputs \cup WideIndexInputs :
           indexing = [nElems |-> input.nElems,
                       vectorizedIndex |-> input.vectorizedIndex,
                       linearizedIndex |-> input.linearizedIndex,
                       calls |-> << >>]

\* linearizedIndex = VectorizedToLinearizedIndex(vectorizedIndex, nElems)
CallVectorizedToLinearizedIndex ==
    /\ indexing # NotIndexing
    /\ Len(indexing.calls) < MaxIndexCalls
    /\ \E r \in { VectorizedToLinearizedIndex(indexing.vectorizedIndex,
                                              indexing.nElems) } :
           indexing' = [indexing EXCEPT
               !.linearizedIndex = IF r.thrown THEN @ ELSE r.ret,
               !.calls = Append(@, [op |-> "VectorizedToLinearizedIndex",
                                    arg |-> indexing.vectorizedIndex,
                                    result |-> r])]
    /\ UNCHANGED << CoordinateSystemsMap, IECTransforms, CoordinateSystemsHierarchy,
                    ElementaryTransforms, Transform, outputTransform, call,
                    lastCall, nUpdates, updating >>

\* vectorizedIndex = LinearizedToVectorizedIndex(linearizedIndex, nElems)
CallLinearizedToVectorizedIndex ==
    /\ indexing # NotIndexing
    /\ Len(indexing.calls) < MaxIndexCalls
    /\ \E r \in { LinearizedToVectorizedIndex(indexing.linearizedIndex,
                                              indexing.nElems) } :
           indexing' = [indexing EXCEPT
               !.vectorizedIndex = IF r.thrown THEN @ ELSE r.ret,
               !.calls = Append(@, [op |-> "LinearizedToVectorizedIndex",
                                    arg |-> indexing.linearizedIndex,
                                    result |-> r])]
    /\ UNCHANGED << CoordinateSystemsMap, IECTransforms, CoordinateSystemsHierarchy,
                    ElementaryTransforms, Transform, outputTransform, call,
                    lastCall, nUpdates, updating >>

NextIndex == CallVectorizedToLinearizedIndex \/ CallLinearizedToVectorizedIndex

\* the index functions under their caller
SpecIndex == InitIndex /\ [][NextIndex]_vars


(***************************************************************************)
(* The properties.                                                         *)
(***************************************************************************)
\* the 15 frames of the hierarchy
DeclaredFrames == RAS..PatientImageRegularGrid

\* the determinant vtkMatrix4x4::Invert tests, up to the positive factor d^4
Determinant(M) ==
    LET a == M.e
        s0 == a[1] * a[6] - a[5] * a[2]
        s1 == a[1] * a[7] - a[5] * a[3]
        s2 == a[1] * a[8] - a[5] * a[4]
        s3 == a[2] * a[7] - a[6] * a[3]
        s4 == a[2] * a[8] - a[6] * a[4]
        s5 == a[3] * a[8] - a[7] * a[4]
        c5 == a[11] * a[16] - a[15] * a[12]
        c4 == a[10] * a[16] - a[14] * a[12]
        c3 == a[10] * a[15] - a[14] * a[11]
        c2 == a[9] * a[16] - a[13] * a[12]
        c1 == a[9] * a[15] - a[13] * a[11]
        c0 == a[9] * a[14] - a[13] * a[10]
    IN  s0 * c5 - s1 * c4 + s2 * c3 + s3 * c2 - s4 * c1 + s5 * c0

\* the stored matrix of the PatientImageRegularGrid -> DICOM edge, the one
\* edge an update call can leave without an inverse
GridMatrix == Transform["PatientImageRegularGridToDICOMTransform"].Matrix

GridInvertible == Determinant(GridMatrix) # 0

\* a GetTransformBetween(fromFrame, toFrame, outputTransform) call between
\* declared frames, transformForBeam left false, has returned
DefaultCall ==
    /\ call.op = "GetTransformBetween"
    /\ call.hasOutput
    /\ ~call.transformForBeam
    /\ call.fromFrame \in DeclaredFrames
    /\ call.toFrame \in DeclaredFrames

\* what GetTransformBetween(fromFrame, toFrame, outputTransform) returns and
\* leaves in the output in the current state of the store
Between(fromFrame, toFrame) ==
    GetTransformBetween(This, fromFrame, toFrame, outputTransform, TRUE, FALSE)

\* C1: for every declared frame F and in every reachable state of the store,
\* GetTransformBetween(F, F), transformForBeam false, returns true and the
\* identity matrix.
C1_IdentityOnSelf ==
    DefaultCall /\ call.fromFrame = call.toFrame
        => call.ret /\ outputTransform.Matrix = IdentityMatrix

\* the same where the matrix of the grid edge has an inverse, or the frame is
\* not PatientImageRegularGrid
IdentityOnSelfWhereInvertible ==
    /\ DefaultCall
    /\ call.fromFrame = call.toFrame
    /\ call.fromFrame = PatientImageRegularGrid => GridInvertible
    => call.ret /\ outputTransform.Matrix = IdentityMatrix

\* C2: for all ordered pairs (A, B) of declared frames and every state of the
\* store, transformForBeam false, the product
\* GetTransformBetween(A, B) * GetTransformBetween(B, A) is the identity.
C2_InverseConsistency ==
    DefaultCall =>
        LET back == Between(call.toFrame, call.fromFrame)
        IN  /\ call.ret
            /\ back.ret
            /\ Multiply4x4(outputTransform.Matrix, back.output.Matrix)
                   = IdentityMatrix

\* the results of all queries between declared frames in the current state
AllBetween == [a \in DeclaredFrames, b \in DeclaredFrames |-> Between(a, b)]

\* the same for every pair at once where the matrix of the grid edge has an
\* inverse
InverseConsistencyWhereInvertible ==
    GridInvertible =>
        LET T == AllBetween
        IN  \A a \in DeclaredFrames, b \in DeclaredFrames :
                /\ T[a, b].ret
                /\ Multiply4x4(T[a, b].output.Matrix, T[b, a].output.Matrix)
                       = IdentityMatrix

\* the frames of the path from a frame up to the root
Ancestors(frame) ==
    LET r == GetPathToRoot(This, frame, << >>)
    IN  { r.path[i] : i \in 1..Len(r.path) }

\* the frames on the tree path between a and c: the ancestors of one that are
\* not ancestors of the other, and the deepest ancestor they share
OnTreePath(a, c) ==
    LET common == Ancestors(a) \cap Ancestors(c)
        apex == { m \in common : Ancestors(m) = common }
    IN  ((Ancestors(a) \cup Ancestors(c)) \ common) \cup apex

\* C3: for declared frames A and C, any frame M on the tree path between
\* them and every state of the store, transformForBeam false,
\* GetTransformBetween(A, C) = GetTransformBetween(M, C) *
\* GetTransformBetween(A, M).
C3_PathComposition ==
    DefaultCall =>
        \A m \in OnTreePath(call.fromFrame, call.toFrame) :
            LET first == Between(call.fromFrame, m)
                second == Between(m, call.toFrame)
            IN  /\ call.ret
                /\ first.ret
                /\ second.ret
                /\ outputTransform.Matrix
                       = Multiply4x4(second.output.Matrix, first.output.Matrix)

\* the same for all frames at once where the matrix of the grid edge has an
\* inverse
PathCompositionWhereInvertible ==
    GridInvertible =>
        LET T == AllBetween
        IN  \A a \in DeclaredFrames, c \in DeclaredFrames :
                \A m \in OnTreePath(a, c) :
                    T[a, c].output.Matrix
                        = Multiply4x4(T[m, c].output.Matrix, T[a, m].output.Matrix)

\* the edge <<child, parent>> a member of the store holds the matrix of
EdgeOf(member) ==
    LET i == CHOOSE i \in 1..Len(NamedMembers) : NamedMembers[i][1] = member
    IN  << NamedMembers[i][2], NamedMembers[i][3] >>

\* the resolved path of the frame to the root includes the edge
ClimbsEdge(frame, edge) ==
    LET path == GetPathToRoot(This, frame, << >>).path
    IN  \E i \in 1..(Len(path) - 1) : path[i] = edge[1] /\ path[i + 1] = edge[2]

\* the frames whose resolved path does not include the edge
Clear(edge) == { frame \in CoordinateSystemIdentifier : ~ClimbsEdge(frame, edge) }

\* value and matrix of a query, in either mode, on the logic object this
Answer(this, fromFrame, toFrame, transformForBeam) ==
    LET r == GetTransformBetween(this, fromFrame, toFrame, CallerOutput, TRUE,
                                 transformForBeam)
    IN  << r.ret, r.output.Matrix >>

\* across the step, every query with neither path including the edge of the
\* member answers as before
LocalTo(member) ==
    \A fromFrame \in Clear(EdgeOf(member)), toFrame \in Clear(EdgeOf(member)) :
        \A transformForBeam \in BOOLEAN :
            Answer(This', fromFrame, toFrame, transformForBeam)
                = Answer(This, fromFrame, toFrame, transformForBeam)

\* C4: an update call for edge (X, Y) leaves the result of GetTransformBetween
\* as it was for every frame pair of which neither resolved path (fromFrame
\* up to the root, the root down to toFrame) includes the edge (X, Y).
C4_UpdateLocality ==
    [][ /\ (\E p \in GantryInputs : UpdateGantryToFixedReferenceTransform(p))
            => LocalTo("GantryToFixedReferenceTransform")
        /\ (\E p \in CollimatorInputs : UpdateCollimatorToGantryTransform(p))
            => LocalTo("CollimatorToGantryTransform")
        /\ (\E p \in WedgeFilterInputs : UpdateWedgeFilterToCollimatorTransform(p))
            => LocalTo("WedgeFilterToCollimatorTransform")
        /\ (\E p \in PatientSupportRotationInputs :
                UpdatePatientSupportRotationToFixedReferenceTransform(p))
            => LocalTo("PatientSupportRotationToFixedReferenceTransform")
        /\ (\E p \in TableTopEccentricRotationInputs :
                UpdateTableTopEccentricRotationToPatientSupportRotationTransform(p))
            => LocalTo("TableTopEccentricRotationToPatientSupportRotationTransform")
        /\ (\E p \in TableTopInputs :
                UpdateTableTopToTableTopEccentricRotationTransform(p))
            => LocalTo("TableTopToTableTopEccentricRotationTransform")
        /\ (\E p \in PatientInputs : UpdatePatientToTableTopTransform(p))
            => LocalTo("PatientToTableTopTransform")
        /\ (\E p \in PatientImageRegularGridInputs :
                UpdatePatientImageRegularGridToDICOMTransform(p))
            => LocalTo("PatientImageRegularGridToDICOMTransform")
      ]_vars

\* after the gantry turned, the query from the collimator to the root, whose
\* path includes the gantry edge, answers otherwise than at construction and
\* the query from the patient to the table top, whose paths do not, answers
\* as at construction
C4_Witness ==
    /\ nUpdates = 1
    /\ lastCall["GantryToFixedReferenceTransform"] = <<90, 0>>
    /\ ClimbsEdge(Collimator, EdgeOf("GantryToFixedReferenceTransform"))
    /\ Answer(This, Collimator, FixedReference, FALSE) # <<TRUE, IdentityMatrix>>
    /\ Patient \in Clear(EdgeOf("GantryToFixedReferenceTransform"))
    /\ TableTop \in Clear(EdgeOf("GantryToFixedReferenceTransform"))
    /\ Answer(This, Patient, TableTop, FALSE) = <<TRUE, IdentityMatrix>>

\* a 90-degree rotation about the Z axis with zero translation
RotationZ90 ==
    [e |-> << 0, -1, 0, 0,
              1,  0, 0, 0,
              0,  0, 1, 0,
              0,  0, 0, 1 >>,
     d |-> 1]

\* GetTransformBetween(Collimator, Gantry, outputTransform) has returned
CollimatorToGantryCall ==
    /\ DefaultCall
    /\ call.fromFrame = Collimator
    /\ call.toFrame = Gantry

\* C5: GetTransformBetween(Collimator, Gantry) returns the identity when
\* every elementary transform has its construction value, and returns exactly
\* the 90-degree rotation about Z with zero translation when the latest
\* collimator update was UpdateCollimatorToGantryTransform(90, 0), whatever
\* the other edges, the Gantry -> FixedReference edge among them, hold.
C5_CollimatorToGantry ==
    CollimatorToGantryCall =>
        /\ call.ret
        /\ nUpdates = 0 => outputTransform.Matrix = IdentityMatrix
        /\ lastCall["CollimatorToGantryTransform"] = <<90, 0>>
               => outputTransform.Matrix = RotationZ90

\* the query has returned the rotation over a gantry turned and pitched
C5_Witness ==
    /\ CollimatorToGantryCall
    /\ lastCall["CollimatorToGantryTransform"] = <<90, 0>>
    /\ lastCall["GantryToFixedReferenceTransform"] = <<90, 90>>
    /\ Transform["GantryToFixedReferenceTransform"].Matrix # IdentityMatrix
    /\ outputTransform.Matrix = RotationZ90

\* The matrices of the edges of a path from the root down, concatenated as
\* stored onto matrix, each on the left of what is there.
RECURSIVE AsStoredDown(_, _, _)
AsStoredDown(path, i, matrix) ==
    IF i >= Len(path) THEN matrix
    ELSE LET member == GetElementaryTransformBetween(This, path[i + 1], path[i])
         IN  AsStoredDown(path, i + 1,
                          Multiply4x4(Transform[member].Matrix, matrix))

\* a GetTransformBetween call between declared frames with transformForBeam
\* true has returned
BeamCall ==
    /\ call.op = "GetTransformBetween"
    /\ call.hasOutput
    /\ call.transformForBeam
    /\ call.fromFrame \in DeclaredFrames
    /\ call.toFrame \in DeclaredFrames

\* C6: with transformForBeam true the result is the matrices of the
\* root-to-toFrame leg, as stored, concatenated onto the fromFrame-to-root
\* leg composed as with transformForBeam false; for toFrame = FixedReference
\* the result is that of the call with transformForBeam false.
C6_BeamMode ==
    BeamCall =>
        LET up == Answer(This, call.fromFrame, FixedReference, FALSE)
            down == GetPathFromRoot(This, call.toFrame, << >>).path
        IN  /\ call.ret
            /\ outputTransform.Matrix = AsStoredDown(down, 1, up[2])
            /\ call.toFrame = FixedReference
                   => <<call.ret, outputTransform.Matrix>>
                          = Answer(This, call.fromFrame, FixedReference, FALSE)

\* a beam call from a turned and shifted collimator up to the root, over a
\* turned gantry, has returned what the default call returns
C6_Witness ==
    /\ BeamCall
    /\ call.toFrame = FixedReference
    /\ call.fromFrame = Collimator
    /\ lastCall["CollimatorToGantryTransform"] = <<90, 1>>
    /\ lastCall["GantryToFixedReferenceTransform"] = <<90, 0>>
    /\ outputTransform.Matrix # IdentityMatrix
    /\ outputTransform.Matrix = Answer(This, Collimator, FixedReference, FALSE)[2]

\* the identifiers that the hierarchy does not connect to the root
Unconnected == { Imager, Focus, LastIECCoordinateFrame }

\* a GetTransformBetween call with such an identifier as fromFrame or toFrame
\* has returned
UnconnectedCall ==
    /\ call.op = "GetTransformBetween"
    /\ call.hasOutput
    /\ call.fromFrame \in Unconnected \/ call.toFrame \in Unconnected

\* C7: GetTransformBetween returns false, the path search of the
\* unconnected frame ended, whenever fromFrame or toFrame is Imager, Focus or
\* LastIECCoordinateFrame, for either value of transformForBeam and whatever
\* the other frame is.
C7_UnconnectedFrame ==
    UnconnectedCall =>
        /\ ~call.ret
        /\ \A frame \in {call.fromFrame, call.toFrame} \cap Unconnected :
               LET r == GetPathToRoot(This, frame, << >>)
               IN  ~r.ret /\ ~r.diverged /\ r.passes = 1

\* the call from the patient to Focus in beam mode has returned false
C7_Witness ==
    /\ UnconnectedCall
    /\ call.fromFrame = Patient
    /\ call.toFrame = Focus
    /\ call.transformForBeam
    /\ nUpdates > 0
    /\ ~call.ret

\* C8: whenever GetTransformBetween has returned false, the caller's output
\* transform is as the caller passed it: neither reset to the identity nor
\* switched to PostMultiply nor holding a partial product.
C8_NoPartialResult ==
    call.op = "GetTransformBetween" /\ ~call.ret
        => outputTransform = CallerOutput

\* a call with an output transform has returned false from a store whose
\* fromFrame leg was resolved and holds a matrix other than the identity
C8_Witness ==
    /\ call.op = "GetTransformBetween"
    /\ call.hasOutput
    /\ ~call.ret
    /\ call.fromFrame = Collimator
    /\ call.toFrame = Imager
    /\ lastCall["CollimatorToGantryTransform"] = <<90, 1>>
    /\ outputTransform = CallerOutput

\* the members that have an update operation
UpdatableMembers ==
    { "GantryToFixedReferenceTransform",
      "CollimatorToGantryTransform",
      "WedgeFilterToCollimatorTransform",
      "PatientSupportRotationToFixedReferenceTransform",
      "TableTopEccentricRotationToPatientSupportRotationTransform",
      "TableTopToTableTopEccentricRotationTransform",
      "PatientToTableTopTransform",
      "PatientImageRegularGridToDICOMTransform" }

\* the matrix the update operation of the member leaves in a transform that
\* held the identity when it was called with arguments p
FromIdentity(member, p) ==
    CASE member = "GantryToFixedReferenceTransform" ->
             GantryToFixedReference(IdentityMatrix, p[1], p[2])
      [] member = "CollimatorToGantryTransform" ->
             CollimatorToGantry(IdentityMatrix, p[1], p[2])
      [] member = "WedgeFilterToCollimatorTransform" ->
             WedgeFilterToCollimator(IdentityMatrix, p[1], p[2])
      [] member = "PatientSupportRotationToFixedReferenceTransform" ->
             PatientSupportRotationToFixedReference(IdentityMatrix, p[1])
      [] member = "TableTopEccentricRotationToPatientSupportRotationTransform" ->
             TableTopEccentricRotationToPatientSupportRotation(IdentityMatrix,
                                                                p[1], p[2])
      [] member = "TableTopToTableTopEccentricRotationTransform" ->
             TableTopToTableTopEccentricRotation(IdentityMatrix,
                                                 p[1], p[2], p[3], p[4], p[5])
      [] member = "PatientToTableTopTransform" ->
             PatientToTableTop(IdentityMatrix, p[1], p[2], p[3], p[4], p[5], p[6])
      [] member = "PatientImageRegularGridToDICOMTransform" ->
             PatientImageRegularGridToDICOM(IdentityMatrix, p)

\* C9: after any sequence of update calls the matrix of every updatable edge
\* is the one its update operation computes from the identity and the
\* arguments of the latest call for that edge alone; earlier calls, and a
\* repetition of the same call, leave no trace.
C9_UpdateResets ==
    \A member \in UpdatableMembers :
        lastCall[member] # Never
            => Transform[member].Matrix = FromIdentity(member, lastCall[member])

\* the collimator was updated twice, last with (90, 0), and holds the
\* 90-degree rotation about Z
C9_Witness ==
    /\ nUpdates = 2
    /\ \A member \in Members \ {"CollimatorToGantryTransform"} :
           lastCall[member] = Never
    /\ lastCall["CollimatorToGantryTransform"] = <<90, 0>>
    /\ Transform["CollimatorToGantryTransform"].Matrix = RotationZ90

\* across the step only the matrix of the member may differ, and the members
\* without an update operation hold their construction value
OnlyMatrixOf(member) ==
    /\ \A other \in Members \ {member} : Transform'[other] = Transform[other]
    /\ Transform'[member].ObjectName = Transform[member].ObjectName
    /\ CoordinateSystemsMap' = CoordinateSystemsMap
    /\ IECTransforms' = IECTransforms
    /\ CoordinateSystemsHierarchy' = CoordinateSystemsHierarchy
    /\ ElementaryTransforms' = ElementaryTransforms
    /\ \A other \in Members \ UpdatableMembers :
           Transform'[other].Matrix = InitialMatrix(other)

\* C10: each update operation changes only the matrix of its own edge: the
\* other 14 elementary transforms, the name map, the edge list, the
\* hierarchy and the vector of transforms are as before, and the seven edges
\* without an update operation keep their construction value.
C10_UpdateFrame ==
    [][ /\ (\E p \in GantryInputs : UpdateGantryToFixedReferenceTransform(p))
            => OnlyMatrixOf("GantryToFixedReferenceTransform")
        /\ (\E p \in CollimatorInputs : UpdateCollimatorToGantryTransform(p))
            => OnlyMatrixOf("CollimatorToGantryTransform")
        /\ (\E p \in WedgeFilterInputs : UpdateWedgeFilterToCollimatorTransform(p))
            => OnlyMatrixOf("WedgeFilterToCollimatorTransform")
        /\ (\E p \in PatientSupportRotationInputs :
                UpdatePatientSupportRotationToFixedReferenceTransform(p))
            => OnlyMatrixOf("PatientSupportRotationToFixedReferenceTransform")
        /\ (\E p \in TableTopEccentricRotationInputs :
                UpdateTableTopEccentricRotationToPatientSupportRotationTransform(p))
            => OnlyMatrixOf("TableTopEccentricRotationToPatientSupportRotationTransform")
        /\ (\E p \in TableTopInputs :
                UpdateTableTopToTableTopEccentricRotationTransform(p))
            => OnlyMatrixOf("TableTopToTableTopEccentricRotationTransform")
        /\ (\E p \in PatientInputs : UpdatePatientToTableTopTransform(p))
            => OnlyMatrixOf("PatientToTableTopTransform")
        /\ (\E p \in PatientImageRegularGridInputs :
                UpdatePatientImageRegularGridToDICOMTransform(p))
            => OnlyMatrixOf("PatientImageRegularGridToDICOMTransform")
      ]_vars

\* after a patient update and a grid update the seven members without an
\* update operation and the six other updatable members hold their
\* construction value
C10_Witness ==
    /\ nUpdates = 2
    /\ lastCall["PatientToTableTopTransform"] = <<3, 1, 2, 90, 180, 270>>
    /\ lastCall["PatientImageRegularGridToDICOMTransform"]
           = <<1, 2, 1, 0, 0, 5, 0, 1, 0, -1, 0, 0>>
    /\ Transform["PatientToTableTopTransform"].Matrix # IdentityMatrix
    /\ Transform["PatientImageRegularGridToDICOMTransform"].Matrix # IdentityMatrix
    /\ \A other \in Members \ {"PatientToTableTopTransform",
                               "PatientImageRegularGridToDICOMTransform"} :
           Transform[other].Matrix = InitialMatrix(other)
    /\ Transform["DICOMToPatientTransform"].Matrix = DicomToPatientTransformationMatrix

\* the matrix with the given rows, as a whole-number matrix
Rows(r1, r2, r3, r4) == [e |-> r1 \o r2 \o r3 \o r4, d |-> 1]

\* the pitch rotation of 90 degrees followed by the roll rotation of 90
\* degrees, Rx(90) * Ry(90)
Pitch90ThenRoll90 ==
    Rows(<<0, 0, 1, 0>>, <<1, 0, 0, 0>>, <<0, 1, 0, 0>>, <<0, 0, 0, 1>>)

\* C11: after UpdateGantryToFixedReferenceTransform(rotation, pitch) the
\* Gantry -> FixedReference matrix is Rx(pitch) * Ry(rotation), the pitch
\* rotation followed by the roll rotation, and it is not Ry(rotation) *
\* Rx(pitch) where the two orders differ.
C11_GantryPitchThenRoll ==
    lastCall["GantryToFixedReferenceTransform"] # Never =>
        LET gantryRotationAngleDeg == lastCall["GantryToFixedReferenceTransform"][1]
            gantryPitchAngleDeg == lastCall["GantryToFixedReferenceTransform"][2]
            matrix == Transform["GantryToFixedReferenceTransform"].Matrix
            pitchThenRoll == Multiply4x4(RotationXMatrix(gantryPitchAngleDeg),
                                         RotationYMatrix(gantryRotationAngleDeg))
            rollThenPitch == Multiply4x4(RotationYMatrix(gantryRotationAngleDeg),
                                         RotationXMatrix(gantryPitchAngleDeg))
        IN  /\ matrix = pitchThenRoll
            /\ pitchThenRoll # rollThenPitch => matrix # rollThenPitch
            /\ (gantryRotationAngleDeg = 90 /\ gantryPitchAngleDeg = 90)
                   => matrix = Pitch90ThenRoll90

\* the gantry was last set to a roll of 90 and a pitch of 90 degrees, for
\* which the two orders give different matrices
C11_Witness ==
    /\ lastCall["GantryToFixedReferenceTransform"] = <<90, 90>>
    /\ Transform["GantryToFixedReferenceTransform"].Matrix = Pitch90ThenRoll90
    /\ Multiply4x4(RotationYMatrix(90), RotationXMatrix(90)) # Pitch90ThenRoll90

\* T(3,1,2) * Rx(90) * Ry(180) * Rz(270)
PatientAt312Psi90Phi180Theta270 ==
    Rows(<<0, -1, 0, 3>>, <<0, 0, 1, 1>>, <<-1, 0, 0, 2>>, <<0, 0, 0, 1>>)

\* C12: after UpdatePatientToTableTopTransform(px, py, pz, psi, phi, theta)
\* the Patient -> TableTop matrix is T(px,py,pz) * Rx(psi) * Ry(phi) *
\* Rz(theta).
C12_PatientTranslateThenXYZ ==
    lastCall["PatientToTableTopTransform"] # Never =>
        LET p == lastCall["PatientToTableTopTransform"]
            matrix == Transform["PatientToTableTopTransform"].Matrix
        IN  /\ matrix = Multiply4x4(TranslationMatrix(p[1], p[2], p[3]),
                            Multiply4x4(RotationXMatrix(p[4]),
                                Multiply4x4(RotationYMatrix(p[5]),
                                            RotationZMatrix(p[6]))))
            /\ p = <<3, 1, 2, 90, 180, 270>>
                   => matrix = PatientAt312Psi90Phi180Theta270

\* the patient was set to (3,1,2) with psi 90, phi 180 and theta 270 degrees
\* after some other update
C12_Witness ==
    /\ nUpdates = 2
    /\ lastCall["PatientToTableTopTransform"] = <<3, 1, 2, 90, 180, 270>>
    /\ Transform["PatientToTableTopTransform"].Matrix
           = PatientAt312Psi90Phi180Theta270

\* column j of the upper three rows of a whole-number matrix
Column(M, j) == << M.e[j], M.e[4 + j], M.e[8 + j] >>

\* the last row of a whole-number matrix
LastRow(M) == << M.e[13], M.e[14], M.e[15], M.e[16] >>

\* the cross product u x v
Cross(u, v) ==
    << u[2] * v[3] - u[3] * v[2], u[3] * v[1] - u[1] * v[3],
       u[1] * v[2] - u[2] * v[1] >>

\* the vector u times k
Scaled(u, k) == << u[1] * k, u[2] * k, u[3] * k >>

\* C13: after UpdatePatientImageRegularGridToDICOMTransform the
\* PatientImageRegularGrid -> DICOM matrix has the row direction cosine
\* times columnPixelSpacing as its first column, the column direction cosine
\* times rowPixelSpacing as its second, their cross product times
\* sliceDistance as its third, (sx, sy, sz) as its fourth, and the last row
\* (0,0,0,1); with the default cosines it is diag(columnPixelSpacing,
\* rowPixelSpacing, sliceDistance) with the translation.
C13_GridMatrixFromCosines ==
    lastCall["PatientImageRegularGridToDICOMTransform"] # Never =>
        LET p == lastCall["PatientImageRegularGridToDICOMTransform"]
            rowCosine == << p[7], p[8], p[9] >>
            columnCosine == << p[10], p[11], p[12] >>
            matrix == Transform["PatientImageRegularGridToDICOMTransform"].Matrix
        IN  /\ matrix.d = 1
            /\ Column(matrix, 1) = Scaled(rowCosine, p[1])
            /\ Column(matrix, 2) = Scaled(columnCosine, p[2])
            /\ Column(matrix, 3) = Scaled(Cross(rowCosine, columnCosine), p[3])
            /\ Column(matrix, 4) = << p[4], p[5], p[6] >>
            /\ LastRow(matrix) = << 0, 0, 0, 1 >>
            /\ (rowCosine = << 1, 0, 0 >> /\ columnCosine = << 0, 1, 0 >>)
                   => matrix = Rows(<<p[1], 0, 0, p[4]>>, <<0, p[2], 0, p[5]>>,
                                    <<0, 0, p[3], p[6]>>, <<0, 0, 0, 1>>)

\* the grid was set with rows along Y and columns along -X, spacings 1 and
\* 2, slice distance 1 and origin (0,0,5), after a grid update that left
\* another matrix
C13_Witness ==
    /\ nUpdates = 2
    /\ lastCall["PatientImageRegularGridToDICOMTransform"]
           = <<1, 2, 1, 0, 0, 5, 0, 1, 0, -1, 0, 0>>
    /\ \A member \in Members \ {"PatientImageRegularGridToDICOMTransform"} :
           lastCall[member] = Never
    /\ Transform["PatientImageRegularGridToDICOMTransform"].Matrix
           = Rows(<<0, -2, 0, 0>>, <<1, 0, 0, 0>>, <<0, 0, 1, 5>>, <<0, 0, 0, 1>>)

\* the rotation of -90 degrees about the X axis
MinusNinetyAboutX ==
    Rows(<<1, 0, 0, 0>>, <<0, 0, 1, 0>>, <<0, -1, 0, 0>>, <<0, 0, 0, 1>>)

PatientToRasMatrix ==
    Rows(<<-1, 0, 0, 0>>, <<0, 0, 1, 0>>, <<0, 1, 0, 0>>, <<0, 0, 0, 1>>)

\* a GetTransformBetween(Patient, RAS, outputTransform) call, transformForBeam
\* false, has returned
PatientToRasCall ==
    /\ call.op = "GetTransformBetween"
    /\ call.hasOutput
    /\ ~call.transformForBeam
    /\ call.fromFrame = Patient
    /\ call.toFrame = RAS

\* C15: in every state of the store GetTransformBetween(Patient, RAS),
\* transformForBeam false, returns true and the fixed matrix with rows
\* (-1,0,0,0), (0,0,1,0), (0,1,0,0), (0,0,0,1).
C15_PatientToRas ==
    PatientToRasCall =>
        call.ret /\ outputTransform.Matrix = PatientToRasMatrix

\* the members whose matrices the two loops of GetTransformBetween(fromFrame,
\* toFrame) ask GetElementaryTransformBetween for: the pairs (child, parent)
\* of neighbours on the two resolved paths
Fetched(this, fromFrame, toFrame) ==
    LET up == GetPathToRoot(this, fromFrame, << >>)
        down == GetPathFromRoot(this, toFrame, << >>)
    IN  IF up.ret /\ down.ret
        THEN ({ GetElementaryTransformBetween(this, up.path[i], up.path[i + 1]) :
                    i \in { j \in 1..(Len(up.path) - 1) :
                                up.path[j] # up.path[j + 1] } }
              \cup
              { GetElementaryTransformBetween(this, down.path[i + 1], down.path[i]) :
                    i \in { j \in 1..(Len(down.path) - 1) :
                                down.path[j] # down.path[j + 1] } })
             \ { NullPtr }
        ELSE {}

\* no resolved path has RAS and FixedReference as neighbours
FixedReferenceToRasOffThePaths ==
    \A frame \in CoordinateSystemIdentifier :
        LET path == GetPathToRoot(This, frame, << >>).path
        IN  \A i \in 1..(Len(path) - 1) :
                { path[i], path[i + 1] } # { FixedReference, RAS }

WithMatrix(this, member, matrix) ==
    [this EXCEPT !.Transform[member].Matrix = matrix]

\* the frame pairs with RAS or FixedReference at one end
TouchingFixedReferenceOrRas ==
    { pair \in CoordinateSystemIdentifier \X CoordinateSystemIdentifier :
          { pair[1], pair[2] } \cap { FixedReference, RAS } # {} }

Declared(fromFrame, toFrame) ==
    { i \in 1..Len(IECTransforms) : IECTransforms[i] = << fromFrame, toFrame >> }

\* the pairs (child, parent) of the tree edges
TreeEdges ==
    UNION { { << CoordinateSystemsHierarchy[i][2][j], CoordinateSystemsHierarchy[i][1] >> :
                  j \in 1..Len(CoordinateSystemsHierarchy[i][2]) } :
            i \in 1..Len(CoordinateSystemsHierarchy) }

\* C17: the list GetIECTransforms returns holds 15 ordered pairs, the pair
\* (child, parent) of each tree edge and (FixedReference, RAS); for each of
\* them GetElementaryTransformBetween returns the one transform constructed
\* for the pair, and for every other ordered pair of identifiers, the
\* reverse of a declared pair and the pairs with an undeclared frame among
\* them, it returns the null pointer.
C17_ElementaryTransformBetween ==
    /\ Len(IECTransforms) = 15
    /\ { IECTransforms[i] : i \in 1..Len(IECTransforms) }
           = TreeEdges \cup { << FixedReference, RAS >> }
    /\ \A fromFrame \in CoordinateSystemIdentifier,
          toFrame \in CoordinateSystemIdentifier :
           LET transform == GetElementaryTransformBetween(This, fromFrame, toFrame)
           IN  /\ Cardinality(Declared(fromFrame, toFrame)) <= 1
               /\ \A i \in Declared(fromFrame, toFrame) :
                      /\ transform = InitialElementaryTransforms[i]
                      /\ transform = NamedMembers[i][1]
                      /\ Declared(toFrame, fromFrame) = {}
               /\ Declared(fromFrame, toFrame) = {} => transform = NullPtr

\* after two updates of the gantry the transform of (Gantry, FixedReference)
\* is the gantry member, that of (FixedReference, Gantry), of (Gantry,
\* Gantry) and of (Imager, Gantry) the null pointer
C17_Witness ==
    /\ nUpdates = 2
    /\ lastCall["GantryToFixedReferenceTransform"] = <<90, 90>>
    /\ \A member \in Members \ {"GantryToFixedReferenceTransform"} :
           lastCall[member] = Never
    /\ GetElementaryTransformBetween(This, Gantry, FixedReference)
           = "GantryToFixedReferenceTransform"
    /\ GetElementaryTransformBetween(This, FixedReference, Gantry) = NullPtr
    /\ GetElementaryTransformBetween(This, Gantry, Gantry) = NullPtr
    /\ GetElementaryTransformBetween(This, Imager, Gantry) = NullPtr

\* the names of the declared frames
FrameName ==
    [ frame \in DeclaredFrames |->
        CASE frame = RAS -> "Ras"
          [] frame = FixedReference -> "FixedReference"
          [] frame = Gantry -> "Gantry"
          [] frame = Collimator -> "Collimator"
          [] frame = LeftImagingPanel -> "LeftImagingPanel"
          [] frame = RightImagingPanel -> "RightImagingPanel"
          [] frame = PatientSupportRotation -> "PatientSupportRotation"
          [] frame = PatientSupport -> "PatientSupport"
          [] frame = TableTopEccentricRotation -> "TableTopEccentricRotation"
          [] frame = TableTop -> "TableTop"
          [] frame = FlatPanel -> "FlatPanel"
          [] frame = WedgeFilter -> "WedgeFilter"
          [] frame = Patient -> "Patient"
          [] frame = DICOM -> "DICOM"
          [] frame = PatientImageRegularGrid -> "PatientImageRegularGrid" ]

\* C18: for every ordered pair of declared frames GetTransformNameBetween
\* returns the name of the from-frame, "To" and the name of the to-frame,
\* with nothing before or after.
C18_TransformNameBetween ==
    \A fromFrame \in DeclaredFrames, toFrame \in DeclaredFrames :
        GetTransformNameBetween(This, fromFrame, toFrame)
            = FrameName[fromFrame] \o "To" \o FrameName[toFrame]

\* C18 as amended: for every ordered pair of declared frames
\* GetTransformNameBetween returns the name of the from-frame, "To", the name
\* of the to-frame and the suffix "Transform", with nothing before or after;
\* for a declared pair this is the object name of its member.
C18_TransformNameBetweenWithSuffix ==
    /\ \A fromFrame \in DeclaredFrames, toFrame \in DeclaredFrames :
           GetTransformNameBetween(This, fromFrame, toFrame)
               = FrameName[fromFrame] \o "To" \o FrameName[toFrame] \o "Transform"
    /\ \A i \in 1..Len(NamedMembers) :
           GetTransformNameBetween(This, NamedMembers[i][2], NamedMembers[i][3])
               = NamedMembers[i][1]

\* after an update of the store the name for (RAS, Patient) is
\* "RasToPatientTransform" and the name for (TableTop, TableTop) is
\* "TableTopToTableTopTransform"
C18_Witness ==
    /\ nUpdates = 1
    /\ lastCall["PatientToTableTopTransform"] # Never
    /\ GetTransformNameBetween(This, RAS, Patient) = "RasToPatientTransform"
    /\ GetTransformNameBetween(This, TableTop, TableTop) = "TableTopToTableTopTransform"

\* every coordinate of the 3D index is below its extent
InExtents(vectorizedIndex, nElems) ==
    \A i \in 1..3 : vectorizedIndex[i] < nElems[i]

\* the k-th call was VectorizedToLinearizedIndex and the next one
\* LinearizedToVectorizedIndex on the value it returned
RoundTripAt(k) ==
    /\ k < Len(indexing.calls)
    /\ indexing.calls[k].op = "VectorizedToLinearizedIndex"
    /\ indexing.calls[k + 1].op = "LinearizedToVectorizedIndex"

\* C19: for all extents and every 3D index with each coordinate below its
\* extent, VectorizedToLinearizedIndex returns without an error and
\* LinearizedToVectorizedIndex of the value returned, with the same extents,
\* returns the 3D index without an error.
C19_RoundTrip ==
    \A k \in 1..Len(indexing.calls) :
        (RoundTripAt(k) /\ InExtents(indexing.calls[k].arg, indexing.nElems)) =>
            /\ ~indexing.calls[k].result.thrown
            /\ indexing.calls[k + 1].arg = indexing.calls[k].result.ret
            /\ ~indexing.calls[k + 1].result.thrown
            /\ indexing.calls[k + 1].result.ret = indexing.calls[k].arg
            /\ indexing.vectorizedIndex = indexing.calls[k].arg

\* the index (65534,1,2) of a grid of 65535 x 2 x 3 elements went to the
\* linear index 393209 and back
C19_Witness ==
    /\ indexing.nElems = <<65535, 2, 3>>
    /\ Len(indexing.calls) = 2
    /\ RoundTripAt(1)
    /\ indexing.calls[1].arg = <<65534, 1, 2>>
    /\ indexing.calls[1].result = [thrown |-> FALSE, ret |-> ToUint64(393209)]
    /\ indexing.calls[2].result = [thrown |-> FALSE, ret |-> <<65534, 1, 2>>]

\* the number of elements of the grid
TotalElems(nElems) ==
    Times(Times(ToBytes(nElems[1], 12), nElems[2]), nElems[3])

\* the call had an argument out of range: a coordinate at or above its
\* extent, a linear index at or above the number of elements
OutOfRange(c) ==
    IF c.op = "VectorizedToLinearizedIndex"
    THEN ~InExtents(c.arg, indexing.nElems)
    ELSE ~Less(c.arg \o <<0, 0, 0, 0>>, TotalElems(indexing.nElems))

\* C20: VectorizedToLinearizedIndex throws whenever a coordinate is at or
\* above its extent and LinearizedToVectorizedIndex throws whenever the
\* linear index is at or above n0*n1*n2, and the call returns no value,
\* neither a clamped nor a wrapped one.
C20_OutOfRangeThrows ==
    \A k \in 1..Len(indexing.calls) :
        OutOfRange(indexing.calls[k]) =>
            indexing.calls[k].result = [thrown |-> TRUE]

\* on a grid of 65535 x 2 x 3 elements the 3D index (65535,0,0) and the
\* linear index 393210 were both refused
C20_Witness ==
    /\ indexing.nElems = <<65535, 2, 3>>
    /\ Len(indexing.calls) = 2
    /\ indexing.calls[1] = [op |-> "VectorizedToLinearizedIndex",
                            arg |-> <<65535, 0, 0>>,
                            result |-> [thrown |-> TRUE]]
    /\ indexing.calls[2] = [op |-> "LinearizedToVectorizedIndex",
                            arg |-> ToUint64(393210),
                            result |-> [thrown |-> TRUE]]
    /\ indexing.vectorizedIndex = <<65535, 0, 0>>
    /\ indexing.linearizedIndex = ToUint64(393210)

\* (e0*n1 + e1)*n2 + e2 in 96 bits, which lose no carry on uint16_t values
ExactLinearIndex(vectorizedIndex, nElems) ==
    Plus(Times(Plus(Times(ToBytes(vectorizedIndex[1], 12), nElems[2]),
                    ToBytes(vectorizedIndex[2], 12)),
               nElems[3]),
         ToBytes(vectorizedIndex[3], 12))

\* C21: for every 3D index within the extents VectorizedToLinearizedIndex
\* returns exactly i0*n1*n2 + i1*n2 + i2, no carry lost and no bit cut off
\* in its 64 bits, and the value is below n0*n1*n2; the index (1,2,3) of a
\* grid of 4 x 5 x 6 elements gives 45.
C21_ExactLinearIndex ==
    \A k \in 1..Len(indexing.calls) :
        LET c == indexing.calls[k]
        IN  (c.op = "VectorizedToLinearizedIndex"
               /\ InExtents(c.arg, indexing.nElems)) =>
                /\ ~c.result.thrown
                /\ c.result.ret \o <<0, 0, 0, 0>>
                       = ExactLinearIndex(c.arg, indexing.nElems)
                /\ Less(c.result.ret \o <<0, 0, 0, 0>>,
                        TotalElems(indexing.nElems))
                /\ (indexing.nElems = <<4, 5, 6>> /\ c.arg = <<1, 2, 3>>) =>
                       c.result.ret = ToUint64(45)

\* the last element (65534,65534,65534) of a grid of 65535 x 65535 x 65535
\* elements went to 65535^3 - 1 = 0xFFFD0002FFFE, above 32 bits
C21_Witness ==
    /\ indexing.nElems = <<65535, 65535, 65535>>
    /\ Len(indexing.calls) >= 1
    /\ indexing.calls[1] = [op |-> "VectorizedToLinearizedIndex",
                            arg |-> <<65534, 65534, 65534>>,
                            result |-> [thrown |-> FALSE,
                                        ret |-> <<254, 255, 2, 0,
                                                  253, 255, 0, 0>>]]

\* the grid has no elements: one of its extents is zero
ZeroExtent(nElems) == \E i \in 1..3 : nElems[i] = 0

\* C30: on a grid with an extent of zero VectorizedToLinearizedIndex throws
\* for every 3D index and LinearizedToVectorizedIndex throws for every
\* linear index, so that no division and no remainder by n2 or n1 is taken
\* with a divisor of zero; and every component that
\* LinearizedToVectorizedIndex returns is below its extent.
C30_ZeroExtentThrows ==
    \A k \in 1..Len(indexing.calls) :
        LET c == indexing.calls[k]
        IN  /\ ZeroExtent(indexing.nElems) => c.result = [thrown |-> TRUE]
            /\ c.result # DivisionByZero
            /\ (c.op = "LinearizedToVectorizedIndex" /\ ~c.result.thrown) =>
                   InExtents(c.result.ret, indexing.nElems)

\* on a grid of 2 x 2 x 0 elements the 3D index (1,1,0) and the linear
\* index 0 were both refused
C30_Witness ==
    /\ indexing.nElems = <<2, 2, 0>>
    /\ Len(indexing.calls) = 2
    /\ indexing.calls[1] = [op |-> "VectorizedToLinearizedIndex",
                            arg |-> <<1, 1, 0>>,
                            result |-> [thrown |-> TRUE]]
    /\ indexing.calls[2] = [op |-> "LinearizedToVectorizedIndex",
                            arg |-> ToUint64(0),
                            result |-> [thrown |-> TRUE]]

\* the parent the hierarchy gives a frame other than the root
ParentOf(frame) ==
    CHOOSE parent \in CoordinateSystemIdentifier : << frame, parent >> \in TreeEdges

\* the stored matrix of the edge from a frame to its parent
StoredMatrix(frame) ==
    LET i == CHOOSE i \in 1..Len(NamedMembers) :
                 /\ NamedMembers[i][2] = frame
                 /\ NamedMembers[i][3] = ParentOf(frame)
    IN  Transform[NamedMembers[i][1]].Matrix

RECURSIVE UpToRoot(_)
\* U(frame): the stored child-to-parent matrices of the edges from the frame
\* up to the root, the matrix of the first edge applied to a point first
UpToRoot(frame) ==
    IF frame = FixedReference THEN IdentityMatrix
    ELSE Multiply4x4(UpToRoot(ParentOf(frame)), StoredMatrix(frame))

\* C22: with transformForBeam false and both frames in the tree the matrix
\* of GetTransformBetween(fromFrame, toFrame) is inverse(U(toFrame)) *
\* U(fromFrame): the stored matrices of the edges from fromFrame up to the
\* root, then the inverse of each stored matrix of the edges from the root
\* down to toFrame.
C22_InverseOfToAfterFrom ==
    DefaultCall =>
        /\ call.ret
        /\ Determinant(UpToRoot(call.toFrame)) # 0
        /\ Multiply4x4(UpToRoot(call.toFrame), outputTransform.Matrix)
               = UpToRoot(call.fromFrame)

\* the same where the matrix of the grid edge has an inverse
InverseOfToAfterFromWhereInvertible ==
    (DefaultCall /\ GridInvertible) =>
        /\ call.ret
        /\ Determinant(UpToRoot(call.toFrame)) # 0
        /\ Multiply4x4(UpToRoot(call.toFrame), outputTransform.Matrix)
               = UpToRoot(call.fromFrame)

\* the places <<i, j>> of the hierarchy that list the frame as a child
ChildPlaces(frame) ==
    { place \in UNION { { << i, j >> : j \in 1..Len(CoordinateSystemsHierarchy[i][2]) } :
                         i \in 1..Len(CoordinateSystemsHierarchy) } :
          CoordinateSystemsHierarchy[place[1]][2][place[2]] = frame }

\* the keys of the places that list the frame as a child
ParentsOf(frame) ==
    { CoordinateSystemsHierarchy[place[1]][1] : place \in ChildPlaces(frame) }

RECURSIVE AncestorsWithin(_, _)
\* the frames one to `steps` parent steps above the frame
AncestorsWithin(frame, steps) ==
    IF steps = 0 THEN {}
    ELSE ParentsOf(frame)
           \cup UNION { AncestorsWithin(parent, steps - 1) :
                            parent \in ParentsOf(frame) }

\* the hierarchy is a tree of the 15 declared frames rooted at FixedReference
HierarchyIsTree ==
    /\ \A i, k \in 1..Len(CoordinateSystemsHierarchy) :
           CoordinateSystemsHierarchy[i][1] = CoordinateSystemsHierarchy[k][1]
               => i = k
    /\ \A i \in 1..Len(CoordinateSystemsHierarchy) :
           CoordinateSystemsHierarchy[i][1] \in DeclaredFrames
    /\ ChildPlaces(FixedReference) = {}
    /\ \A frame \in DeclaredFrames \ { FixedReference } :
           /\ Cardinality(ChildPlaces(frame)) = 1
           /\ FixedReference \in AncestorsWithin(frame, Cardinality(DeclaredFrames))
    /\ \A frame \in CoordinateSystemIdentifier :
           /\ frame \notin AncestorsWithin(frame, Cardinality(DeclaredFrames))
           /\ frame \notin DeclaredFrames => ChildPlaces(frame) = {}

\* C23: the hierarchy the constructor builds is a tree rooted at
\* FixedReference, and no call changes it: FixedReference is the only
\* declared frame without a parent, each of the other 14 declared frames is
\* the child of exactly one parent, no frame is above itself and every
\* declared frame is reached from FixedReference.
C23_HierarchyIsTree ==
    /\ HierarchyIsTree
    /\ [][CoordinateSystemsHierarchy' = CoordinateSystemsHierarchy]_vars

\* after an update of the patient and a query from PatientImageRegularGrid
\* the hierarchy is the tree of 14 edges, PatientImageRegularGrid six edges
\* below FixedReference
C23_Witness ==
    /\ lastCall["PatientToTableTopTransform"] # << >>
    /\ call.op = "GetTransformBetween"
    /\ call.fromFrame = PatientImageRegularGrid
    /\ call.toFrame = FixedReference
    /\ call.hasOutput
    /\ HierarchyIsTree
    /\ Cardinality(TreeEdges) = 14
    /\ AncestorsWithin(PatientImageRegularGrid, 5)
           = { DICOM, Patient, TableTop, TableTopEccentricRotation,
               PatientSupportRotation }
    /\ AncestorsWithin(PatientImageRegularGrid, 6)
           = AncestorsWithin(PatientImageRegularGrid, 5) \cup { FixedReference }

\* C24: for every frame of the hierarchy GetPathToRoot, called with an
\* empty path, returns true and a path that starts with the frame, goes on
\* with the parent of each element, ends with FixedReference and holds
\* FixedReference once; for FixedReference the path is FixedReference alone.
C24_PathToRoot ==
    \A frame \in DeclaredFrames :
        \A r \in { GetPathToRoot(This, frame, << >>) } :
            /\ r.ret
            /\ Len(r.path) >= 1
            /\ r.path[1] = frame
            /\ \A i \in 1..(Len(r.path) - 1) :
                   ParentsOf(r.path[i]) = { r.path[i + 1] }
            /\ r.path[Len(r.path)] = FixedReference
            /\ Cardinality({ i \in 1..Len(r.path) : r.path[i] = FixedReference }) = 1
            /\ frame = FixedReference => r.path = << FixedReference >>

\* with an updated grid edge in the store the path of
\* PatientImageRegularGrid has seven frames and that of Gantry two
C24_Witness ==
    /\ lastCall["PatientImageRegularGridToDICOMTransform"] # << >>
    /\ GetPathToRoot(This, PatientImageRegularGrid, << >>).path
           = << PatientImageRegularGrid, DICOM, Patient, TableTop,
                TableTopEccentricRotation, PatientSupportRotation,
                FixedReference >>
    /\ GetPathToRoot(This, Gantry, << >>).path = << Gantry, FixedReference >>

\* C25: for every identifier GetPathFromRoot returns true exactly when
\* GetPathToRoot does, and then its path holds the frames of the
\* GetPathToRoot path in the opposite order, FixedReference first.
C25_PathFromRoot ==
    \A frame \in CoordinateSystemIdentifier :
        \A up \in { GetPathToRoot(This, frame, << >>) } :
            \A down \in { GetPathFromRoot(This, frame, << >>) } :
                /\ down.ret = up.ret
                /\ Len(down.path) = Len(up.path)
                /\ \A i \in 1..Len(up.path) :
                       down.path[i] = up.path[Len(up.path) + 1 - i]
                /\ up.ret => /\ down.path[1] = FixedReference
                             /\ down.path[Len(down.path)] = frame

\* with an updated wedge filter edge in the store the path from the root to
\* WedgeFilter runs FixedReference, Gantry, Collimator, WedgeFilter, and
\* neither call succeeds for Imager
C25_Witness ==
    /\ lastCall["WedgeFilterToCollimatorTransform"] # << >>
    /\ GetPathToRoot(This, WedgeFilter, << >>).path
           = << WedgeFilter, Collimator, Gantry, FixedReference >>
    /\ GetPathFromRoot(This, WedgeFilter, << >>)
           = [ret |-> TRUE, passes |-> 3, diverged |-> FALSE,
              path |-> << FixedReference, Gantry, Collimator, WedgeFilter >>]
    /\ ~GetPathToRoot(This, Imager, << >>).ret
    /\ ~GetPathFromRoot(This, Imager, << >>).ret

\* the depth of the tree: the edges of the longest climb to the root
TreeDepth ==
    LET Depth(frame) ==
            Cardinality(AncestorsWithin(frame, Cardinality(DeclaredFrames)))
        deepest == CHOOSE frame \in DeclaredFrames :
                       \A other \in DeclaredFrames : Depth(other) <= Depth(frame)
    IN  Depth(deepest)

\* C26: GetPathToRoot ends for every identifier: for a frame of the
\* hierarchy the do-while loop ends after at most as many passes as the
\* tree is deep, with a path of at most 7 frames; for Imager, Focus and
\* LastIECCoordinateFrame it ends after one pass and the call returns false
\* with the path empty.
C26_PathToRootEnds ==
    \A depth \in { TreeDepth }, frame \in CoordinateSystemIdentifier :
        \A r \in { GetPathToRoot(This, frame, << >>) } :
            /\ ~r.diverged
            /\ frame \in DeclaredFrames =>
                   /\ r.passes <= depth
                   /\ Len(r.path) <= 7
            /\ frame \in Unconnected =>
                   /\ r.passes = 1
                   /\ ~r.ret
                   /\ r.path = << >>

\* with an updated patient edge in the store the search from
\* PatientImageRegularGrid ends after six passes, the one from
\* FixedReference without a pass and the one from Focus after one
C26_Witness ==
    /\ lastCall["PatientToTableTopTransform"] # << >>
    /\ GetPathToRoot(This, PatientImageRegularGrid, << >>).passes = 6
    /\ ~GetPathToRoot(This, PatientImageRegularGrid, << >>).diverged
    /\ GetPathToRoot(This, FixedReference, << >>).passes = 0
    /\ GetPathToRoot(This, Focus, << >>)
           = [ret |-> FALSE, path |-> << >>, passes |-> 1, diverged |-> FALSE]

\* C28: for every ordered pair of frames of the hierarchy, in either mode
\* and in every state of the store, GetTransformBetween called with an
\* output transform returns true: a transform is registered for every
\* (child, parent) pair of the two paths and the search for it never fails.
C28_DeclaredFramesSucceed ==
    (/\ call.op = "GetTransformBetween"
     /\ call.hasOutput
     /\ call.fromFrame \in DeclaredFrames
     /\ call.toFrame \in DeclaredFrames) => call.ret

\* with the grid edge holding a matrix without an inverse, the call from
\* PatientImageRegularGrid to WedgeFilter in beam mode has returned true
C28_Witness ==
    /\ ~GridInvertible
    /\ call.op = "GetTransformBetween"
    /\ call.hasOutput
    /\ call.fromFrame = PatientImageRegularGrid
    /\ call.toFrame = WedgeFilter
    /\ call.transformForBeam
    /\ call.ret

\* the step is a GetTransformBetween call, the first or the second
QueryStep == call' # call

\* C29: GetTransformBetween only reads the store of elementary transforms:
\* every elementary matrix is after the call what it was before it, the
\* inverse being taken of a copy, and the same query made again without an
\* update in between returns the same value and the same matrix.
C29_QueryReadOnly ==
    [][QueryStep =>
          /\ Transform' = Transform
          /\ ElementaryTransforms' = ElementaryTransforms
          /\ IECTransforms' = IECTransforms
          /\ "again" \in DOMAIN call' =>
                 /\ call'.again = call.ret
                 /\ outputTransform'.Matrix = outputTransform.Matrix]_vars

\* with the grid edge holding the matrix of an update, the call from
\* Collimator to PatientImageRegularGrid was made twice, returned true both
\* times and the grid edge still holds the matrix of the update
C29_Witness ==
    /\ lastCall["PatientImageRegularGridToDICOMTransform"] # << >>
    /\ "again" \in DOMAIN call
    /\ call.fromFrame = Collimator
    /\ call.toFrame = PatientImageRegularGrid
    /\ ~call.transformForBeam
    /\ call.ret
    /\ call.again
    /\ GridInvertible
    /\ GridMatrix # IdentityMatrix
    /\ GridMatrix
           = PatientImageRegularGridToDICOM(IdentityMatrix,
                 lastCall["PatientImageRegularGridToDICOMTransform"])

\* for each argument of the member's update call, the place in the body of
\* the vtkTransform call that takes it, Identity() being the first
ArgumentStep(member) ==
    CASE member = "GantryToFixedReferenceTransform" -> << 3, 2 >>
      [] member = "CollimatorToGantryTransform" -> << 3, 2 >>
      [] member = "WedgeFilterToCollimatorTransform" -> << 3, 2 >>
      [] member = "PatientSupportRotationToFixedReferenceTransform" -> << 2 >>
      [] member = "TableTopEccentricRotationToPatientSupportRotationTransform" ->
             << 3, 2 >>
      [] member = "TableTopToTableTopEccentricRotationTransform" ->
             << 2, 2, 2, 3, 4 >>
      [] member = "PatientToTableTopTransform" -> << 2, 2, 2, 3, 4, 5 >>
      [] member = "PatientImageRegularGridToDICOMTransform" ->
             << 2, 2, 2, 2, 2, 2, 2, 2, 2, 2, 2, 2 >>

\* the matrix of the edge after the first `done` calls of the update body:
\* the identity after Identity(), then what the whole update gives with the
\* offsets and angles of the calls not yet made at zero
ReachedMatrix(member, p, done) ==
    IF done = 1 THEN IdentityMatrix
    ELSE FromIdentity(member,
             [i \in 1..Len(p) |->
                 IF ArgumentStep(member)[i] <= done THEN p[i] ELSE 0])

\* a GetTransformBetween call from the child to the parent of the edge
\* under update returned while the update was in progress
QueryDuringUpdate ==
    /\ updating # NotUpdating
    /\ call.op = "GetTransformBetween"
    /\ call.hasOutput
    /\ ~call.transformForBeam
    /\ << call.fromFrame, call.toFrame >> = EdgeOf(updating.member)

\* C27: an update is not atomic with respect to a query: it sets its edge
\* to the identity and then applies its steps one by one, the edge holding
\* the identity, the translation alone and so on in between, and a
\* GetTransformBetween call made in between on a path through the edge
\* returns with that intermediate matrix; no lock keeps the call out.
C27_UpdateNotAtomic ==
    updating # NotUpdating =>
        /\ Transform[updating.member].Matrix
               = ReachedMatrix(updating.member, updating.p, updating.done)
        /\ QueryDuringUpdate =>
               /\ call.ret
               /\ outputTransform.Matrix
                      = ReachedMatrix(updating.member, updating.p, updating.done)

\* the patient update with offsets (3,1,2) and angles 90, 180, 270 has made
\* its Identity() and Translate calls, and GetTransformBetween(Patient,
\* TableTop) has returned the translation by (3,1,2) alone, which is
\* neither the matrix the edge held before the update nor the one the
\* update leaves
C27_Witness ==
    /\ QueryDuringUpdate
    /\ updating.member = "PatientToTableTopTransform"
    /\ updating.p = << 3, 1, 2, 90, 180, 270 >>
    /\ updating.done = 2
    /\ call.ret
    /\ outputTransform.Matrix = TranslationMatrix(3, 1, 2)
    /\ outputTransform.Matrix # updating.before
    /\ outputTransform.Matrix # FromIdentity(updating.member, updating.p)

\* once the update call has returned the edge holds what the update
\* operation computes in one piece
StepsMakeTheUpdate ==
    updating = NotUpdating =>
        \A member \in UpdatableMembers :
            lastCall[member] # Never =>
                Transform[member].Matrix = FromIdentity(member, lastCall[member])

====
